---- MODULE Spec2Model ----
(***************************************************************************)
(* Model of the Fraktal Cython engines:                                    *)
(*   fraktal/engines/seed_cy.pyx        f_cython                           *)
(*   fraktal/engines/orbit_cy.pyx       truncated_orbit_cython             *)
(*   fraktal/engines/mandelbrot_cy.pyx  palettes, compute_pixel and the    *)
(*                                      two field generators               *)
(*                                                                         *)
(* A behaviour is one call of one entry point (variable op) on inputs      *)
(* drawn from bounded sets in Init.  Loops advance one iteration per step. *)
(*                                                                         *)
(* Numbers.  Up to the escape-time loop a C double is a record [k, v]:     *)
(* k = "fin" with the integer value v, k = "inf" with the sign v, or       *)
(* k = "nan".  The inputs are small integers, which doubles represent      *)
(* exactly, and every iterate stays an integer of small magnitude because  *)
(* iteration stops at the bailout, so the integer arithmetic below is the  *)
(* arithmetic of the doubles.  From the smooth coloring on a double is a   *)
(* fraction [k, n, d]; the logarithm is computed in fixed point.           *)
(***************************************************************************)
EXTENDS Integers, Sequences, FiniteSets, TLC

\* ------------------------------------------------------------------ bounds
MaxIterBound == 3      \* max_iter ranges over MinIter..MaxIterBound
CMax == 2              \* c ranges over the Gaussian integers in [-CMax, CMax]^2
BailoutMax == 2        \* bailout ranges over 0..BailoutMax
PMax == 3              \* p ranges over 2..PMax
PaletteMax == 3        \* palette_choice ranges over -1..PaletteMax
IdxDen == 30           \* color indices n / IdxDen ...
IdxMax == 2            \* ... between -IdxMax and IdxMax
IdxHuge == 1000000     \* one very large color index
MaxDim == 3            \* width and height range over -1..MaxDim
ZoomMax == 56          \* tile zoom ranges over 0..ZoomMax
TileMax == 3           \* tile x and y range over 0..TileMax
NumWorkers == 2        \* request threads of the tile server
ServeZoomMax == 0      \* tile requests are for zoom 0..ServeZoomMax
MaxRequests == 3       \* tile requests per behaviour
MaxChanges == 1        \* parameter changes per behaviour
MaxCalls == 2          \* renders of one request per behaviour
CoordDim == 6          \* width and height of a coordinate grid range over 2..CoordDim
NumThreads == 2        \* threads of a row-parallel render

MinIter == 0 - 2       \* includes the negative budgets -1 and -2

\* ----------------------------------------------------------------- doubles
Fin(v) == [k |-> "fin", v |-> v]
NaN == [k |-> "nan", v |-> 0]
Inf(s) == [k |-> "inf", v |-> s]
Uninit == [k |-> "uninit", v |-> 0]

Sgn(v) == IF v > 0 THEN 1 ELSE IF v < 0 THEN 0 - 1 ELSE 0

FAdd(a, b) ==
    IF a.k = "nan" \/ b.k = "nan" THEN NaN
    ELSE IF a.k = "inf" THEN (IF b.k = "inf" /\ b.v # a.v THEN NaN ELSE a)
    ELSE IF b.k = "inf" THEN b
    ELSE Fin(a.v + b.v)

FNeg(a) == IF a.k = "nan" THEN NaN ELSE [k |-> a.k, v |-> 0 - a.v]

FSub(a, b) == FAdd(a, FNeg(b))

FMul(a, b) ==
    IF a.k = "nan" \/ b.k = "nan" THEN NaN
    ELSE IF a.k = "inf" \/ b.k = "inf"
         THEN (IF Sgn(a.v) * Sgn(b.v) = 0 THEN NaN ELSE Inf(Sgn(a.v) * Sgn(b.v)))
    ELSE Fin(a.v * b.v)

\* a / b for a finite b, the C division (cdivision=True: x / 0 is an infinity
\* or a NaN, never a ZeroDivisionError).  The requests of Init make every
\* quotient with b # 0 an integer.
FDiv(a, b) ==
    IF a.k = "nan" THEN NaN
    ELSE IF b.v = 0 THEN (IF a.k = "fin" /\ a.v = 0 THEN NaN
                          ELSE Inf(IF Sgn(a.v) = 0 THEN 1 ELSE Sgn(a.v)))
    ELSE IF a.k = "inf" THEN Inf(a.v * Sgn(b.v))
    ELSE Fin((a.v * Sgn(b.v)) \div (b.v * Sgn(b.v)))

\* a > b as the C comparison: false whenever an operand is NaN
FGt(a, b) ==
    /\ a.k # "nan"
    /\ b.k # "nan"
    /\ IF a.k = "inf" THEN a.v > 0 /\ ~(b.k = "inf" /\ b.v > 0)
       ELSE IF b.k = "inf" THEN b.v < 0
       ELSE a.v > b.v

\* ----------------------------------------------------------- complex128
Cx(re, im) == [re |-> re, im |-> im]
CInt(a, b) == Cx(Fin(a), Fin(b))
CZero == CInt(0, 0)
Garbage == Cx(Uninit, Uninit)      \* an element of np.empty never written

CAdd(a, b) == Cx(FAdd(a.re, b.re), FAdd(a.im, b.im))

CMul(a, b) == Cx(FSub(FMul(a.re, b.re), FMul(a.im, b.im)),
                 FAdd(FMul(a.re, b.im), FMul(a.im, b.re)))

\* z**q for an integer q >= 0, the generic power
RECURSIVE CPow(_, _)
CPow(a, q) == IF q = 0 THEN CInt(1, 0) ELSE CMul(a, CPow(a, q - 1))

\* z.real * z.real + z.imag * z.imag
AbsSq(a) == FAdd(FMul(a.re, a.re), FMul(a.im, a.im))

f_cython_Slip(zz, cc, pp) ==
    IF pp = 2 THEN CAdd(CMul(zz, cc), cc) ELSE CAdd(CPow(zz, pp), cc)

\* ------------------------------------------------------------ seed_cy.pyx
f_cython(zz, cc, pp) ==
    IF pp = 2 THEN CAdd(CMul(zz, zz), cc) ELSE CAdd(CPow(zz, pp), cc)

\* ----------------------------------------------------------- orbit_cy.pyx
\* the step written inline in the loop of truncated_orbit_cython
OrbitNextZ(zz, cc, pp) ==
    IF pp = 2 THEN CAdd(CMul(zz, zz), cc) ELSE CAdd(CPow(zz, pp), cc)

OrbitBailsOut_Ge(zz, bb) ==
    AbsSq(zz).k = "fin" /\ AbsSq(zz).v >= bb * bb

\* the bailout test of the loop
OrbitBailsOut(zz, bb) == FGt(AbsSq(zz), FMul(Fin(bb), Fin(bb)))

VARIABLES
    op,             \* the entry point this behaviour calls
    pc,             \* position in it
    build,          \* how the build converts an unrepresentable double to uint8
    z,              \* current iterate
    c,              \* the point
    max_iter,       \* iteration budget
    bailout,        \* bailout radius
    p,              \* power
    n,              \* loop index
    orbit,          \* the orbit array: index -> complex128 or Garbage
    escape_time,    \* escape time (of the orbit engine: valid when pc = "done")
    steps,          \* loop iterations executed so far
    w,              \* complex value returned by f_cython
    u,              \* potential
    I,              \* color index
    palette_choice, \* palette selector of the optimized pipeline
    rgb,            \* the three bytes a palette has written
    xmin, xmax,     \* real range of a render request
    ymin, ymax,     \* imaginary range
    width, height,  \* resolution
    i, j,           \* row and column of the pixel loop
    result,         \* the image buffer: <<row, col>> -> three bytes
    pixels,         \* pixels computed so far
    cb,             \* what the caller's coloring/index/palette callbacks return
    calls,          \* renders of the request started so far
    prev,           \* the buffer the previous render of the request returned
    coords,         \* the coordinates of a pixel as the two generators compute them
    threads,        \* per thread of a row-parallel render: its rows and its position
    tile,           \* tile address [x, y, z] handed to the tile mapper
    bounds,         \* the bounds the tile mapper returned
    TILE_CACHE,     \* the tile cache: cache key -> image
    req,            \* per worker: the locals of the serve_tile call it runs
    session_max_iter, \* the max_iter of the explorer's parameter controls
    renders,        \* cache key -> tiles generated for it so far
    answered,       \* cache key -> responses sent for it so far
    log,            \* the responses sent so far
    overlap,        \* whether two requests have been in flight together
    changes,        \* parameter changes so far
    served          \* requests received so far

vars == <<op, pc, build, z, c, max_iter, bailout, p, n, orbit, escape_time,
          steps, w, u, I, palette_choice, rgb,
          xmin, xmax, ymin, ymax, width, height, i, j, result, pixels, cb,
          calls, prev, coords, threads, tile, bounds, TILE_CACHE, req, session_max_iter, renders, answered,
          log, overlap, changes, served>>

againVars == <<calls, prev>>
renderVars == <<xmin, xmax, ymin, ymax, width, height, i, j, result, pixels, cb,
                againVars, coords, threads>>
geomVars == <<xmin, xmax, ymin, ymax, width, height, cb, coords, threads>>

iterVars == <<z, c, max_iter, bailout, p, n, orbit, escape_time, steps>>
colorVars == <<u, I, palette_choice, rgb>>
serverVars == <<TILE_CACHE, req, session_max_iter, renders, answered, log,
                overlap, changes, served>>
explorerVars == <<tile, bounds, serverVars>>

\* ------------------------------------------- doubles that are not integers
\* From the smooth coloring on, values are fractions: [k, n, d] is n / d with
\* d > 0 when k = "fin", an infinity of sign n when k = "inf", or a NaN.
Q(nn, dd) == [k |-> "fin", n |-> nn, d |-> dd]
QInt(v) == Q(v, 1)
QNaN == [k |-> "nan", n |-> 0, d |-> 1]
QInf(s) == [k |-> "inf", n |-> s, d |-> 1]

\* a * num / den for integers num > 0 and den > 0
QMul(a, num, den) == IF a.k = "fin" THEN Q(a.n * num, a.d * den) ELSE a

QSub(a, b) ==
    IF a.k = "nan" \/ b.k = "nan" THEN QNaN
    ELSE IF a.k = "inf" THEN (IF b.k = "inf" /\ b.n = a.n THEN QNaN ELSE a)
    ELSE IF b.k = "inf" THEN QInf(0 - b.n)
    ELSE Q(a.n * b.d - b.n * a.d, a.d * b.d)

\* a < b as the C comparison: false whenever an operand is NaN
QLt(a, b) ==
    /\ a.k # "nan"
    /\ b.k # "nan"
    /\ IF a.k = "inf" THEN a.n < 0 /\ ~(b.k = "inf" /\ b.n < 0)
       ELSE IF b.k = "inf" THEN b.n > 0
       ELSE a.n * b.d < b.n * a.d

QGt(a, b) == QLt(b, a)

\* u / m, the C division of doubles (cdivision=True: no ZeroDivisionError)
QDivInt(a, m) ==
    IF a.k = "nan" THEN QNaN
    ELSE IF m = 0 THEN (IF a.n = 0 THEN QNaN ELSE QInf(Sgn(a.n)))
    ELSE IF a.k = "inf" THEN QInf(a.n * Sgn(m))
    ELSE Q(a.n * Sgn(m), a.d * m * Sgn(m))

\* the integral part, fraction discarded
Trunc(a) == IF a.n >= 0 THEN a.n \div a.d ELSE 0 - ((0 - a.n) \div a.d)

\* <uint8>(double).  The integral part when it is representable.  Otherwise
\* the conversion is undefined in C and the result is what the build's
\* conversion instruction leaves in the low byte:
\*   "wrap"  truncating conversion to int32 (x86 cvttsd2si): the value
\*           modulo 256, and 0 for a NaN or an infinity;
\*   "sat"   saturating unsigned conversion (ARM fcvtzu): 0 for a NaN or a
\*           negative value, 255 for +infinity, the value modulo 256 otherwise.
Builds == {"wrap", "sat"}

CastU8(a) ==
    IF a.k = "nan" THEN 0
    ELSE IF a.k = "inf" THEN (IF build = "sat" /\ a.n > 0 THEN 255 ELSE 0)
    ELSE IF Trunc(a) \in 0..255 THEN Trunc(a)
    ELSE IF build = "sat" /\ Trunc(a) < 0 THEN 0
    ELSE Trunc(a) % 256

\* --------------------------------------------------------- libc log, sqrt
\* log is modelled in fixed point: Log2Fx(nn, dd) is log2(nn / dd) in units
\* of 1 / LogScale, found by normalising to [1, 2) and squaring LogBits
\* times.  The code only uses quotients of logarithms, which do not depend
\* on the base.
LogBits == 10
LogScale == 2 ^ LogBits

RECURSIVE Log2Frac(_, _, _)
Log2Frac(y, kk, acc) ==
    IF kk > LogBits THEN acc
    ELSE LET y2 == (y * y) \div LogScale
         IN  IF y2 >= 2 * LogScale
             THEN Log2Frac(y2 \div 2, kk + 1, acc + (LogScale \div (2 ^ kk)))
             ELSE Log2Frac(y2, kk + 1, acc)

RECURSIVE Log2Norm(_, _, _)
Log2Norm(nn, dd, e) ==
    IF nn >= 2 * dd THEN Log2Norm(nn, 2 * dd, e + 1)
    ELSE IF nn < dd THEN Log2Norm(2 * nn, dd, e - 1)
    ELSE e * LogScale + Log2Frac((nn * LogScale) \div dd, 1, 0)

Log2Fx(nn, dd) == Log2Norm(nn, dd, 0)

\* ------------------------------------------------------ mandelbrot_cy.pyx
QZero == QInt(0)
QOne == QInt(1)

\* the comparison intensity > 255 is made on a uint8
simple_palette_cy(ci) ==
    LET cast == CastU8(QMul(ci, 255, 1))
        intensity == IF cast > 255 THEN 255 ELSE cast
    IN  <<intensity, intensity, intensity>>

PaletteIntensity_Scale2(ci) ==
    LET scaled == QMul(ci, 2, 1)
    IN  IF QLt(scaled, QZero) THEN QZero
        ELSE IF QGt(scaled, QOne) THEN QOne
        ELSE scaled

\* color_index * 2.5 clamped to [0, 1]; a NaN passes both comparisons
PaletteIntensity(ci) ==
    LET scaled == QMul(ci, 5, 2)
    IN  IF QLt(scaled, QZero) THEN QZero
        ELSE IF QGt(scaled, QOne) THEN QOne
        ELSE scaled

hot_palette_cy(ci) ==
    LET intensity == PaletteIntensity(ci)
    IN  IF QLt(intensity, Q(1, 3))
        THEN <<CastU8(QMul(intensity, 3 * 255, 1)), 0, 0>>
        ELSE IF QLt(intensity, Q(2, 3))
        THEN <<255, CastU8(QMul(QSub(intensity, Q(1, 3)), 3 * 255, 1)), 0>>
        ELSE <<255, 255, CastU8(QMul(QSub(intensity, Q(2, 3)), 3 * 255, 1))>>

cool_palette_cy(ci) ==
    LET intensity == PaletteIntensity(ci)
    IN  IF QLt(intensity, Q(1, 3))
        THEN <<0, CastU8(QMul(intensity, 3 * 255, 1)), 255>>
        ELSE IF QLt(intensity, Q(2, 3))
        THEN <<0, 255,
               CastU8(QMul(QSub(QOne, QMul(QSub(intensity, Q(1, 3)), 3, 1)), 255, 1))>>
        ELSE <<CastU8(QMul(QSub(intensity, Q(2, 3)), 3 * 255, 1)), 255, 0>>

simple_index_cy(uu, m) == QDivInt(uu, m)

\* nu = log(log(abs_z) / log(bailout)) / log(p) for abs_z^2 = abs2 >= 1
SmoothNu(abs2, bb, pp) ==
    LET lz == Log2Fx(abs2, 1)        \* 2 * log2(abs_z), >= 0
        lp == Log2Fx(pp, 1)
    IN  IF bb = 0 THEN QInf(0 - 1)                   \* log(x / -inf) = log(-0.0)
        ELSE IF bb = 1 THEN (IF lz = 0 THEN QNaN     \* log(0.0 / 0.0)
                             ELSE QInf(1))           \* log(x / 0.0)
        ELSE IF lz = 0 THEN QInf(0 - 1)              \* log(0.0)
        ELSE Q(Log2Fx(lz, 2 * Log2Fx(bb, 1)), lp)

smooth_iteration_count_cy_Gt(zz, et, m, bb, pp) ==
    IF et > m THEN QInt(m)
    ELSE IF AbsSq(zz).k # "fin" THEN QNaN
    ELSE IF AbsSq(zz).v <= 0 THEN QInt(et)
    ELSE QSub(QInt(et + 1), SmoothNu(AbsSq(zz).v, bb, pp))

smooth_iteration_count_cy(zz, et, m, bb, pp) ==
    IF et >= m THEN QInt(m)
    ELSE IF AbsSq(zz).k # "fin" THEN QNaN
    ELSE IF AbsSq(zz).v <= 0 THEN QInt(et)
    ELSE QSub(QInt(et + 1), SmoothNu(AbsSq(zz).v, bb, pp))

PixelBailsOut_Sign(zz, bb) ==
    FGt(FSub(FMul(zz.re, zz.re), FMul(zz.im, zz.im)), FMul(Fin(bb), Fin(bb)))

\* compute_pixel, lines 183-191: the test and the step of one iteration
PixelBailsOut(zz, bb) == FGt(AbsSq(zz), FMul(Fin(bb), Fin(bb)))

PixelNextZ(zz, cc) ==
    Cx(FAdd(FSub(FMul(zz.re, zz.re), FMul(zz.im, zz.im)), cc.re),
       FAdd(FMul(FMul(Fin(2), zz.re), zz.im), cc.im))

\* compute_pixel, lines 194-203: the smooth coloring written inline
PixelSmooth(zz, et, m, bb, pp) ==
    IF et < m
    THEN IF AbsSq(zz).k = "fin" /\ AbsSq(zz).v > 0
         THEN QSub(QInt(et + 1), SmoothNu(AbsSq(zz).v, bb, pp))
         ELSE QInt(et)
    ELSE QInt(m)

\* compute_pixel, lines 209-216: the palette dispatch
PixelPalette(choice, ci) ==
    IF choice = 0 THEN simple_palette_cy(ci)
    ELSE IF choice = 1 THEN hot_palette_cy(ci)
    ELSE IF choice = 2 THEN cool_palette_cy(ci)
    ELSE simple_palette_cy(ci)

CGrid == {CInt(a, b) : a \in (0 - CMax)..CMax, b \in (0 - CMax)..CMax}
Bailouts == 0..BailoutMax
Powers == 2..PMax
Budgets == MinIter..MaxIterBound
PaletteChoices == (0 - 1)..PaletteMax
Indices == {Q(k, IdxDen) : k \in (0 - IdxMax * IdxDen)..(IdxMax * IdxDen)}
               \cup {QInt(IdxHuge), QNaN, QInf(1), QInf(0 - 1)}
NoRGB == <<0 - 1, 0 - 1, 0 - 1>>

NoCallbacks == [inset |-> QZero, esc |-> QZero]

\* rgb before the palette callback has returned anything
NoPaletteValue == <<QZero, QZero, QZero>>

RenderIdle ==
    /\ xmin = 0 /\ xmax = 0 /\ ymin = 0 /\ ymax = 0
    /\ width = 0 /\ height = 0
    /\ i = 0 /\ j = 0
    /\ result = <<>>
    /\ pixels = 0
    /\ cb = NoCallbacks
    /\ calls = 0
    /\ prev = <<>>
    /\ coords = <<>>
    /\ threads = <<>>

NoTile == [x |-> 0, y |-> 0, z |-> 0]

TileIdle ==
    /\ tile = NoTile
    /\ bounds = <<>>

Zooms == 0..ZoomMax
TileIndices == 0..TileMax
Tiles == [x : TileIndices, y : TileIndices, z : Zooms]

Workers == 1..NumWorkers

\* the positions of the max-iterations slider the requests are drawn from:
\* its minimum and its initial value
MaxIterSettings == {50, 256}
DefaultMaxIter == 256

\* tiles the requests are drawn from: the top-left tile of each zoom level
RequestedTiles == {[x |-> 0, y |-> 0, z |-> zm] : zm \in 0..ServeZoomMax}

CacheKey_NoMaxIter(t, m) == <<t.z, t.x, t.y, 0>>

\* line 1905: f"{z}:{x}:{y}:{max_iter}", one field per number
CacheKey(t, m) == <<t.z, t.x, t.y, m>>

CacheKeys == {CacheKey(t, m) : t \in RequestedTiles, m \in MaxIterSettings}

KeyError == [bounds |-> <<>>, max_iter |-> 0 - 1]

EmptyCache == [k \in {} |-> KeyError]

IdleRequest ==
    [pc |-> "idle", tile |-> NoTile, max_iter |-> 0, cache_key |-> <<>>,
     img |-> KeyError]

ServerIdle ==
    /\ TILE_CACHE = EmptyCache
    /\ req = [wk \in Workers |-> IdleRequest]
    /\ session_max_iter = DefaultMaxIter
    /\ renders = [k \in CacheKeys |-> 0]
    /\ answered = [k \in CacheKeys |-> 0]
    /\ log = {}
    /\ overlap = FALSE
    /\ changes = 0
    /\ served = 0

ExplorerIdle ==
    /\ TileIdle
    /\ ServerIdle

ColorIdle ==
    /\ u = QZero
    /\ I = QZero
    /\ palette_choice = 0
    /\ rgb = NoRGB

\* ------------------------------------- a call of truncated_orbit_cython
InitOrbit ==
    /\ op = "orbit"
    /\ pc = "call"
    /\ build \in Builds
    /\ z = CZero
    /\ c \in CGrid
    /\ max_iter \in Budgets
    /\ bailout \in Bailouts
    /\ p \in Powers
    /\ n = 0
    /\ orbit = <<>>
    /\ escape_time = 0
    /\ steps = 0
    /\ w = CZero
    /\ ColorIdle
    /\ RenderIdle
    /\ ExplorerIdle

\* line 20: np.empty(max_iterations + 1); a negative length raises ValueError
OrbitCall ==
    /\ op = "orbit" /\ pc = "call"
    /\ IF max_iter + 1 < 0
       THEN /\ pc' = "error"
            /\ orbit' = orbit
       ELSE /\ pc' = "loop"
            /\ orbit' = [ix \in 0..max_iter |-> Garbage]
    /\ n' = 0
    /\ UNCHANGED <<op, build, z, c, max_iter, bailout, p, escape_time, steps, w>>
    /\ UNCHANGED colorVars
    /\ UNCHANGED renderVars
    /\ UNCHANGED explorerVars

OrbitStep_NoRecord ==
    /\ op = "orbit" /\ pc = "loop"
    /\ n <= max_iter
    /\ orbit' = IF n = 0 THEN orbit ELSE [orbit EXCEPT ![n] = z]
    /\ z' = OrbitNextZ(z, c, p)
    /\ steps' = steps + 1
    /\ IF OrbitBailsOut(z', bailout)
       THEN /\ pc' = "done"
            /\ escape_time' = n
            /\ n' = n
       ELSE /\ pc' = "loop"
            /\ escape_time' = escape_time
            /\ n' = n + 1
    /\ UNCHANGED <<op, build, c, max_iter, bailout, p, w>>
    /\ UNCHANGED colorVars
    /\ UNCHANGED renderVars
    /\ UNCHANGED explorerVars

\* lines 24-34: one iteration of the loop
OrbitStep ==
    /\ op = "orbit" /\ pc = "loop"
    /\ n <= max_iter
    /\ orbit' = [orbit EXCEPT ![n] = z]
    /\ z' = OrbitNextZ(z, c, p)
    /\ steps' = steps + 1
    /\ IF OrbitBailsOut(z', bailout)
       THEN /\ pc' = "done"
            /\ escape_time' = n
            /\ n' = n
       ELSE /\ pc' = "loop"
            /\ escape_time' = escape_time
            /\ n' = n + 1
    /\ UNCHANGED <<op, build, c, max_iter, bailout, p, w>>
    /\ UNCHANGED colorVars
    /\ UNCHANGED renderVars
    /\ UNCHANGED explorerVars

OrbitExhaust_OffByOne ==
    /\ op = "orbit" /\ pc = "loop"
    /\ n > max_iter
    /\ pc' = "done"
    /\ escape_time' = max_iter + 1
    /\ UNCHANGED <<op, build, z, c, max_iter, bailout, p, n, orbit, steps, w>>
    /\ UNCHANGED colorVars
    /\ UNCHANGED renderVars
    /\ UNCHANGED explorerVars

\* line 35: the loop ran out
OrbitExhaust ==
    /\ op = "orbit" /\ pc = "loop"
    /\ n > max_iter
    /\ pc' = "done"
    /\ escape_time' = max_iter
    /\ UNCHANGED <<op, build, z, c, max_iter, bailout, p, n, orbit, steps, w>>
    /\ UNCHANGED colorVars
    /\ UNCHANGED renderVars
    /\ UNCHANGED explorerVars

\* ------------------------------------------------- a call of f_cython
InitSeed ==
    /\ op = "seed"
    /\ pc = "call"
    /\ build \in Builds
    /\ z \in CGrid
    /\ c \in CGrid
    /\ max_iter = 0
    /\ bailout = 0
    /\ p \in Powers
    /\ n = 0
    /\ orbit = <<>>
    /\ escape_time = 0
    /\ steps = 0
    /\ w = CZero
    /\ ColorIdle
    /\ RenderIdle
    /\ ExplorerIdle

SeedCall ==
    /\ op = "seed" /\ pc = "call"
    /\ w' = f_cython(z, c, p)
    /\ pc' = "done"
    /\ UNCHANGED <<op, build, z, c, max_iter, bailout, p, n, orbit, escape_time, steps>>
    /\ UNCHANGED colorVars
    /\ UNCHANGED renderVars
    /\ UNCHANGED explorerVars

\* ------------------------------------------ a call of one palette function
InitPalette ==
    /\ op = "palette"
    /\ pc = "call"
    /\ build \in Builds
    /\ z = CZero /\ c = CZero /\ max_iter = 0 /\ bailout = 0 /\ p = 2
    /\ n = 0 /\ orbit = <<>> /\ escape_time = 0 /\ steps = 0 /\ w = CZero
    /\ u = QZero
    /\ I \in Indices
    /\ palette_choice \in 0..2
    /\ rgb = NoRGB
    /\ RenderIdle
    /\ ExplorerIdle

PaletteCall ==
    /\ op = "palette" /\ pc = "call"
    /\ rgb' = (CASE palette_choice = 0 -> simple_palette_cy(I)
                  [] palette_choice = 1 -> hot_palette_cy(I)
                  [] palette_choice = 2 -> cool_palette_cy(I))
    /\ pc' = "done"
    /\ UNCHANGED <<op, build, w, u, I, palette_choice>>
    /\ UNCHANGED iterVars
    /\ UNCHANGED renderVars
    /\ UNCHANGED explorerVars

\* -------------------------------- a call of smooth_iteration_count_cy
InitSmooth ==
    /\ op = "smooth"
    /\ pc = "call"
    /\ build \in Builds
    /\ z \in CGrid
    /\ c = CZero
    /\ max_iter \in 0..MaxIterBound
    /\ escape_time \in 0..max_iter
    /\ bailout \in Bailouts
    /\ p \in Powers
    /\ n = 0 /\ orbit = <<>> /\ steps = 0 /\ w = CZero
    /\ ColorIdle
    /\ RenderIdle
    /\ ExplorerIdle

SmoothCall ==
    /\ op = "smooth" /\ pc = "call"
    /\ u' = smooth_iteration_count_cy(z, escape_time, max_iter, bailout, p)
    /\ pc' = "done"
    /\ UNCHANGED <<op, build, w, I, palette_choice, rgb>>
    /\ UNCHANGED iterVars
    /\ UNCHANGED renderVars
    /\ UNCHANGED explorerVars

\* ------------------------------------------------ a call of compute_pixel
\* lines 168-175: zr = zi = 0 and escape_time = max_iter before the loop
InitPixel ==
    /\ op = "pixel"
    /\ pc = "iter"
    /\ build \in Builds
    /\ z = CZero
    /\ c \in CGrid
    /\ max_iter \in Budgets
    /\ bailout \in Bailouts
    /\ p \in Powers
    /\ n = 0
    /\ orbit = <<>>
    /\ escape_time = max_iter
    /\ steps = 0
    /\ w = CZero
    /\ u = QZero
    /\ I = QZero
    /\ palette_choice \in PaletteChoices
    /\ rgb = NoRGB
    /\ RenderIdle
    /\ ExplorerIdle

\* lines 183-191: one iteration of the loop
PixelIter ==
    /\ op = "pixel" /\ pc = "iter"
    /\ n < max_iter
    /\ steps' = steps + 1
    /\ IF PixelBailsOut(z, bailout)
       THEN /\ escape_time' = n
            /\ pc' = "color"
            /\ UNCHANGED <<z, n>>
       ELSE /\ z' = PixelNextZ(z, c)
            /\ n' = n + 1
            /\ UNCHANGED <<escape_time, pc>>
    /\ UNCHANGED <<op, build, c, max_iter, bailout, p, orbit, w>>
    /\ UNCHANGED colorVars
    /\ UNCHANGED renderVars
    /\ UNCHANGED explorerVars

\* the loop ran out: escape_time keeps its initial value max_iter
PixelLoopEnd ==
    /\ op = "pixel" /\ pc = "iter"
    /\ n >= max_iter
    /\ pc' = "color"
    /\ UNCHANGED <<op, build, w>>
    /\ UNCHANGED iterVars
    /\ UNCHANGED colorVars
    /\ UNCHANGED renderVars
    /\ UNCHANGED explorerVars

\* lines 193-216: smooth coloring, color index, palette
PixelColor ==
    /\ op = "pixel" /\ pc = "color"
    /\ u' = PixelSmooth(z, escape_time, max_iter, bailout, p)
    /\ I' = simple_index_cy(u', max_iter)
    /\ rgb' = PixelPalette(palette_choice, I')
    /\ pc' = "done"
    /\ UNCHANGED <<op, build, w, palette_choice>>
    /\ UNCHANGED iterVars
    /\ UNCHANGED renderVars
    /\ UNCHANGED explorerVars

\* ------------------------------------------------------ render requests
RECURSIVE Gcd(_, _)
Gcd(a, b) == IF b = 0 THEN a ELSE Gcd(b, a % b)

RECURSIVE LcmUpTo(_)
LcmUpTo(k) == IF k <= 1 THEN 1 ELSE (LcmUpTo(k - 1) * k) \div Gcd(LcmUpTo(k - 1), k)

\* every valid range is a multiple of every width - 1 and height - 1, so
\* that the pixel coordinates are integers
SpanUnit == LcmUpTo(MaxDim - 1)

\* two valid ranges, an empty one and an inverted one
Ranges == {<<0 - 2, SpanUnit - 2>>, <<0 - 2, 2 * SpanUnit - 2>>,
           <<0, 0>>, <<SpanUnit - 2, 0 - 2>>}
Dims == (0 - 1)..MaxDim
\* what the palette callback returns for a point of the set and for an
\* escaped point: whole numbers outside 0..255, or numbers with a fraction
CallbackValues == {[inset |-> QInt(300), esc |-> QInt(0 - 1)],
                   [inset |-> Q(1, 2), esc |-> Q(0 - 3, 2)]}

\* what np.empty leaves in a pixel of the buffer of the k-th allocation:
\* whatever the memory held, which is not the same from one call to the next
Uninitialized(k) == <<0 - k, 0 - k, 0 - k>>

\* the buffer np.empty / np.full allocates, every pixel holding fill
NewBuffer(h, wd, fill) == [px \in (0..(h - 1)) \X (0..(wd - 1)) |-> fill]

\* compute_pixel as one call: the loop of lines 183-191 ...
RECURSIVE PixelLoop(_, _, _, _, _)
PixelLoop(zz, cc, ii, m, bb) ==
    IF ii >= m THEN [z |-> zz, escape_time |-> m]
    ELSE IF PixelBailsOut(zz, bb) THEN [z |-> zz, escape_time |-> ii]
    ELSE PixelLoop(PixelNextZ(zz, cc), cc, ii + 1, m, bb)

\* ... followed by lines 193-216
compute_pixel(cc, m, bb, pp, choice) ==
    LET it == PixelLoop(CZero, cc, 0, m, bb)
        uu == PixelSmooth(it.z, it.escape_time, m, bb, pp)
        ci == simple_index_cy(uu, m)
    IN  [escape_time |-> it.escape_time, u |-> uu, I |-> ci,
         rgb |-> PixelPalette(choice, ci)]

\* truncated_orbit_cython as one call, for max_iterations >= -1
RECURSIVE OrbitLoop(_, _, _, _, _, _, _)
OrbitLoop(zz, cc, nn, m, bb, pp, orb) ==
    IF nn > m THEN [orbit |-> orb, escape_time |-> m]
    ELSE LET rec == [orb EXCEPT ![nn] = zz]
             nz == OrbitNextZ(zz, cc, pp)
         IN  IF OrbitBailsOut(nz, bb) THEN [orbit |-> rec, escape_time |-> nn]
             ELSE OrbitLoop(nz, cc, nn + 1, m, bb, pp, rec)

truncated_orbit_cython(zz, cc, m, bb, pp) ==
    OrbitLoop(zz, cc, 0, m, bb, pp, [ix \in 0..m |-> Garbage])

\* mandelbrot_set_cython_optimized, lines 254-255 and 262-263
OptDelta(lo, hi, size) == FDiv(Fin(hi - lo), Fin(size - 1))
OptCoord(lo, hi, size, idx) == FAdd(Fin(lo), FMul(Fin(idx), OptDelta(lo, hi, size)))

\* mandelbrot_set_cython, lines 35-36
CbCoord(lo, hi, size, idx) ==
    FAdd(Fin(lo), FDiv(FMul(Fin(idx), Fin(hi - lo)), Fin(size - 1)))

Mask8_Saturating(v) == IF v > 255 THEN 255 ELSE IF v < 0 THEN 0 ELSE v

\* v & 0xFF for a Python int v: the low eight bits of its two's complement
Mask8(v) == v % 256

InitRender(entry) ==
    /\ op = entry
    /\ pc = "call"
    /\ build \in Builds
    /\ z = CZero /\ c = CZero
    /\ max_iter \in Budgets
    /\ bailout = 2                \* the default of the parameter
    /\ p = 2                      \* the default of the parameter
    /\ n = 0 /\ orbit = <<>> /\ escape_time = 0 /\ steps = 0 /\ w = CZero
    /\ u = QZero /\ I = QZero
    /\ \E xr \in Ranges : xmin = xr[1] /\ xmax = xr[2]
    /\ \E yr \in Ranges : ymin = yr[1] /\ ymax = yr[2]
    /\ width \in Dims
    /\ height \in Dims
    /\ i = 0 /\ j = 0
    /\ result = <<>>
    /\ pixels = 0
    /\ calls = 1
    /\ prev = <<>>
    /\ coords = <<>>
    /\ threads = <<>>
    /\ ExplorerIdle

InitOpt ==
    /\ InitRender("render_opt")
    /\ rgb = NoRGB
    /\ palette_choice \in PaletteChoices
    /\ cb = NoCallbacks

InitCb ==
    /\ InitRender("render_cb")
    /\ rgb = NoPaletteValue
    /\ palette_choice = 0
    /\ cb \in CallbackValues

\* line 248: np.empty((height, width, 3)); a negative dimension raises
\* ValueError.  Lines 254-255 compute dx and dy.
OptCall ==
    /\ op = "render_opt" /\ pc = "call"
    /\ IF height < 0 \/ width < 0
       THEN /\ pc' = "error"
            /\ result' = result
       ELSE /\ pc' = "rows"
            /\ result' = NewBuffer(height, width, Uninitialized(calls))
    /\ i' = 0 /\ j' = 0
    /\ UNCHANGED <<op, build, w, pixels>>
    /\ UNCHANGED iterVars
    /\ UNCHANGED colorVars
    /\ UNCHANGED geomVars
    /\ UNCHANGED againVars
    /\ UNCHANGED explorerVars

OptPixel_SkipsColumn ==
    /\ op = "render_opt" /\ pc = "rows"
    /\ i < height /\ j < width
    /\ LET cc == Cx(OptCoord(xmin, xmax, width, j), OptCoord(ymin, ymax, height, i))
           px == compute_pixel(cc, max_iter, bailout, p, palette_choice)
       IN  /\ c' = cc
           /\ escape_time' = px.escape_time
           /\ u' = px.u
           /\ I' = px.I
           /\ rgb' = px.rgb
           /\ result' = IF j = 0 THEN result
                         ELSE [result EXCEPT ![<<i, j>>] = px.rgb]
    /\ j' = j + 1
    /\ pixels' = pixels + 1
    /\ UNCHANGED <<op, pc, build, w, z, max_iter, bailout, p, n, orbit, steps,
                   palette_choice, i>>
    /\ UNCHANGED geomVars
    /\ UNCHANGED againVars
    /\ UNCHANGED explorerVars

\* lines 261-266: one pixel
OptPixel ==
    /\ op = "render_opt" /\ pc = "rows"
    /\ i < height /\ j < width
    /\ LET cc == Cx(OptCoord(xmin, xmax, width, j), OptCoord(ymin, ymax, height, i))
           px == compute_pixel(cc, max_iter, bailout, p, palette_choice)
       IN  /\ c' = cc
           /\ escape_time' = px.escape_time
           /\ u' = px.u
           /\ I' = px.I
           /\ rgb' = px.rgb
           /\ result' = [result EXCEPT ![<<i, j>>] = px.rgb]
    /\ j' = j + 1
    /\ pixels' = pixels + 1
    /\ UNCHANGED <<op, pc, build, w, z, max_iter, bailout, p, n, orbit, steps,
                   palette_choice, i>>
    /\ UNCHANGED geomVars
    /\ UNCHANGED againVars
    /\ UNCHANGED explorerVars

\* line 260: the next row
OptRowEnd ==
    /\ op = "render_opt" /\ pc = "rows"
    /\ i < height /\ j >= width
    /\ i' = i + 1
    /\ j' = 0
    /\ UNCHANGED <<op, pc, build, w, result, pixels>>
    /\ UNCHANGED iterVars
    /\ UNCHANGED colorVars
    /\ UNCHANGED geomVars
    /\ UNCHANGED againVars
    /\ UNCHANGED explorerVars

OptReturn_Cancelled ==
    /\ op = "render_opt" /\ pc = "rows"
    /\ i >= height
    /\ pc' = "error"
    /\ UNCHANGED <<op, build, w, i, j, result, pixels>>
    /\ UNCHANGED iterVars
    /\ UNCHANGED colorVars
    /\ UNCHANGED geomVars
    /\ UNCHANGED againVars
    /\ UNCHANGED explorerVars

\* line 268
OptReturn ==
    /\ op = "render_opt" /\ pc = "rows"
    /\ i >= height
    /\ pc' = "done"
    /\ UNCHANGED <<op, build, w, i, j, result, pixels>>
    /\ UNCHANGED iterVars
    /\ UNCHANGED colorVars
    /\ UNCHANGED geomVars
    /\ UNCHANGED againVars
    /\ UNCHANGED explorerVars

\* line 22: np.full((height, width, 3), max_iter, dtype=np.uint8); a negative
\* dimension raises ValueError; a max_iter outside 0..255 raises OverflowError
\* under NumPy 2 and is wrapped modulo 256 under NumPy 1
CbCall ==
    /\ op = "render_cb" /\ pc = "call"
    /\ \/ /\ height < 0 \/ width < 0
          /\ pc' = "error"
          /\ result' = result
       \/ /\ height >= 0 /\ width >= 0
          /\ max_iter \notin 0..255
          /\ pc' = "error"
          /\ result' = result
       \/ /\ height >= 0 /\ width >= 0
          /\ pc' = "rows"
          /\ result' = NewBuffer(height, width,
                                 <<Mask8(max_iter), Mask8(max_iter), Mask8(max_iter)>>)
    /\ i' = 0 /\ j' = 0
    /\ UNCHANGED <<op, build, w, pixels>>
    /\ UNCHANGED iterVars
    /\ UNCHANGED colorVars
    /\ UNCHANGED geomVars
    /\ UNCHANGED againVars
    /\ UNCHANGED explorerVars

\* lines 34-51: one pixel.  The orbit engine raises ValueError for
\* max_iter < -1; the three callbacks are the caller's.  int(rgb[k]) is the
\* integral part of the palette value, Trunc.
CbPixel ==
    /\ op = "render_cb" /\ pc = "rows"
    /\ i < height /\ j < width
    /\ IF max_iter + 1 < 0
       THEN /\ pc' = "error"
            /\ c' = Cx(CbCoord(xmin, xmax, width, j), CbCoord(ymin, ymax, height, i))
            /\ UNCHANGED <<orbit, escape_time, rgb, result, j, pixels>>
       ELSE LET cc == Cx(CbCoord(xmin, xmax, width, j), CbCoord(ymin, ymax, height, i))
                res == truncated_orbit_cython(CZero, cc, max_iter, bailout, p)
                v == IF res.escape_time = max_iter THEN cb.inset ELSE cb.esc
            IN  /\ pc' = pc
                /\ c' = cc
                /\ orbit' = res.orbit
                /\ escape_time' = res.escape_time
                /\ rgb' = <<v, v, v>>
                /\ result' = [result EXCEPT ![<<i, j>>] =
                                 <<Mask8(Trunc(v)), Mask8(Trunc(v)), Mask8(Trunc(v))>>]
                /\ j' = j + 1
                /\ pixels' = pixels + 1
    /\ UNCHANGED <<op, build, w, z, max_iter, bailout, p, n, steps,
                   u, I, palette_choice, i>>
    /\ UNCHANGED geomVars
    /\ UNCHANGED againVars
    /\ UNCHANGED explorerVars

\* line 33: the next row
CbRowEnd ==
    /\ op = "render_cb" /\ pc = "rows"
    /\ i < height /\ j >= width
    /\ i' = i + 1
    /\ j' = 0
    /\ UNCHANGED <<op, pc, build, w, result, pixels>>
    /\ UNCHANGED iterVars
    /\ UNCHANGED colorVars
    /\ UNCHANGED geomVars
    /\ UNCHANGED againVars
    /\ UNCHANGED explorerVars

\* line 53
CbReturn ==
    /\ op = "render_cb" /\ pc = "rows"
    /\ i >= height
    /\ pc' = "done"
    /\ UNCHANGED <<op, build, w, i, j, result, pixels>>
    /\ UNCHANGED iterVars
    /\ UNCHANGED colorVars
    /\ UNCHANGED geomVars
    /\ UNCHANGED againVars
    /\ UNCHANGED explorerVars

\* ------------------------------------------------------- tile coordinates
\* The tile mapper works on doubles of the form h/2 + k / 2^s: a base-view
\* edge (in halves) plus a multiple of a power of two.  [h, k, s] is that
\* double.  Every number met is an exact dyadic until the final sum, which
\* is rounded to the 52 fraction bits of a double.
Halves(hh) == [h |-> hh, k |-> 0, s |-> 0]

FractionBits == 52

\* kk / 2^sh rounded to the nearest integer, ties to even
RoundShift(kk, sh) ==
    LET a == IF kk < 0 THEN 0 - kk ELSE kk
        q == a \div (2 ^ sh)
        r == a % (2 ^ sh)
        half == 2 ^ (sh - 1)
        up == IF r > half \/ (r = half /\ q % 2 = 1) THEN q + 1 ELSE q
    IN  IF kk < 0 THEN 0 - up ELSE up

\* base + off for an edge base and an offset off = [k, s] of magnitude below
\* the edge's: the sum lies in a binade whose doubles are 2^-52 apart
TAdd(base, off) ==
    IF off.s <= FractionBits
    THEN [h |-> base.h, k |-> off.k, s |-> off.s]
    ELSE [h |-> base.h, k |-> RoundShift(off.k, off.s - FractionBits),
          s |-> FractionBits]

TSub(base, off) == TAdd(base, [k |-> 0 - off.k, s |-> off.s])

\* a < b and a = b for two doubles on the same base edge
Shifted(kk, e) == IF kk = 0 THEN 0 ELSE kk * (2 ^ e)

TLt(a, b) ==
    LET m == IF a.s > b.s THEN a.s ELSE b.s
    IN  Shifted(a.k, m - a.s) < Shifted(b.k, m - b.s)

TEq(a, b) ==
    LET m == IF a.s > b.s THEN a.s ELSE b.s
    IN  a.h = b.h /\ Shifted(a.k, m - a.s) = Shifted(b.k, m - b.s)

\* (x / n) * range for n = 2.0 ** zm
TileOffset(x, zm, range) == [k |-> x * range, s |-> zm]

real_min == Halves(0 - 4)
real_max == Halves(2)
imag_min == Halves(0 - 3)
imag_max == Halves(3)
real_range == (real_max.h - real_min.h) \div 2
imag_range == (imag_max.h - imag_min.h) \div 2

tile_to_bounds_HalfInverted(x, y, zm) ==
    [xmin |-> TAdd(real_min, TileOffset(x, zm, real_range)),
     xmax |-> TAdd(real_min, TileOffset(x + 1, zm, real_range)),
     ymin |-> TAdd(imag_min, TileOffset(y, zm, imag_range)),
     ymax |-> TSub(imag_max, TileOffset(y, zm, imag_range))]

\* cython-integration-guide.md, lines 1837-1853
tile_to_bounds(x, y, zm) ==
    [xmin |-> TAdd(real_min, TileOffset(x, zm, real_range)),
     xmax |-> TAdd(real_min, TileOffset(x + 1, zm, real_range)),
     ymin |-> TSub(imag_max, TileOffset(y + 1, zm, imag_range)),
     ymax |-> TSub(imag_max, TileOffset(y, zm, imag_range))]

\* cython-integration-guide.md, lines 1369-1385: the same map with the
\* constants -2.0, 1.5 and 3.0 written out
tile_to_complex_bounds(x, y, zm) ==
    [xmin |-> TAdd(Halves(0 - 4), TileOffset(x, zm, 3)),
     xmax |-> TAdd(Halves(0 - 4), TileOffset(x + 1, zm, 3)),
     ymin |-> TSub(Halves(3), TileOffset(y + 1, zm, 3)),
     ymax |-> TSub(Halves(3), TileOffset(y, zm, 3))]

\* the zoom-0 view as leaflet-explorer-feature.md, line 55, describes it:
\* -2.5 to 1.5 real, -2 to 2 imaginary
DocumentedBaseView ==
    [xmin |-> Halves(0 - 5), xmax |-> Halves(3),
     ymin |-> Halves(0 - 4), ymax |-> Halves(4)]

InitTile(entry) ==
    /\ op = entry
    /\ pc = "call"
    /\ build \in Builds
    /\ z = CZero /\ c = CZero /\ max_iter = 0 /\ bailout = 0 /\ p = 2
    /\ n = 0 /\ orbit = <<>> /\ escape_time = 0 /\ steps = 0 /\ w = CZero
    /\ ColorIdle
    /\ RenderIdle
    /\ tile \in Tiles
    /\ bounds = <<>>
    /\ ServerIdle

InitTileToBounds == InitTile("tile_to_bounds")
InitTileToComplexBounds == InitTile("tile_to_complex_bounds")

TileToBounds ==
    /\ op = "tile_to_bounds" /\ pc = "call"
    /\ bounds' = tile_to_bounds(tile.x, tile.y, tile.z)
    /\ pc' = "done"
    /\ UNCHANGED <<op, build, w, tile>>
    /\ UNCHANGED iterVars
    /\ UNCHANGED colorVars
    /\ UNCHANGED renderVars
    /\ UNCHANGED serverVars

TileToComplexBounds ==
    /\ op = "tile_to_complex_bounds" /\ pc = "call"
    /\ bounds' = tile_to_complex_bounds(tile.x, tile.y, tile.z)
    /\ pc' = "done"
    /\ UNCHANGED <<op, build, w, tile>>
    /\ UNCHANGED iterVars
    /\ UNCHANGED colorVars
    /\ UNCHANGED renderVars
    /\ UNCHANGED serverVars

\* ------------------------------------------------------------ tile server
\* serve_tile runs in the web server's request threads, one per worker;
\* TILE_CACHE is the module-level dictionary they share.
\* lines 1911-1927: the PNG of the 256 x 256 tile.  The generator and the
\* palette are deterministic functions of the bounds and of max_iter, so the
\* image is named by them.
Image(t, m) == [bounds |-> tile_to_bounds(t.x, t.y, t.z), max_iter |-> m]

\* the tile server runs none of the compiled palettes: one build stands for all
InitServe ==
    /\ op = "serve"
    /\ pc = "serving"
    /\ build = "wrap"
    /\ z = CZero /\ c = CZero /\ max_iter = 0 /\ bailout = 0 /\ p = 2
    /\ n = 0 /\ orbit = <<>> /\ escape_time = 0 /\ steps = 0 /\ w = CZero
    /\ ColorIdle
    /\ RenderIdle
    /\ ExplorerIdle

otherVars == <<op, pc, build, w, tile, bounds>>

\* the response of a request and the end of its handler
Respond(wk, image, from_cache) ==
    /\ log' = log \cup {[tile |-> req[wk].tile, max_iter |-> req[wk].max_iter,
                         img |-> image, hit |-> from_cache]}
    /\ answered' = [answered EXCEPT ![req[wk].cache_key] = @ + 1]
    /\ req' = [req EXCEPT ![wk] = IdleRequest]

\* lines 1900-1905: a request arrives and the key is built.  Line 1903 sets
\* max_iter to 256, the initial position of the slider, and notes that it is
\* to come from the state: the request takes the session's value, which is
\* 256 until a parameter changes.
ServeBegin(wk, t) ==
    /\ op = "serve"
    /\ req[wk].pc = "idle"
    /\ served < MaxRequests
    /\ req' = [req EXCEPT ![wk] =
                  [pc |-> "lookup", tile |-> t, max_iter |-> session_max_iter,
                   cache_key |-> CacheKey(t, session_max_iter), img |-> KeyError]]
    /\ served' = served + 1
    /\ overlap' = (overlap \/ \E o \in Workers \ {wk} : req[o].pc # "idle")
    /\ UNCHANGED <<TILE_CACHE, session_max_iter, renders, answered, log, changes>>
    /\ UNCHANGED otherVars
    /\ UNCHANGED iterVars
    /\ UNCHANGED colorVars
    /\ UNCHANGED renderVars

\* line 1907: if cache_key in TILE_CACHE
ServeLookup(wk) ==
    /\ op = "serve"
    /\ req[wk].pc = "lookup"
    /\ req' = [req EXCEPT ![wk].pc =
                  IF req[wk].cache_key \in DOMAIN TILE_CACHE THEN "hit"
                  ELSE "generate"]
    /\ UNCHANGED <<TILE_CACHE, session_max_iter, renders, answered, log,
                   overlap, changes, served>>
    /\ UNCHANGED otherVars
    /\ UNCHANGED iterVars
    /\ UNCHANGED colorVars
    /\ UNCHANGED renderVars

\* line 1908: return send_file(BytesIO(TILE_CACHE[cache_key]))
ServeHit(wk) ==
    /\ op = "serve"
    /\ req[wk].pc = "hit"
    /\ IF req[wk].cache_key \in DOMAIN TILE_CACHE
       THEN Respond(wk, TILE_CACHE[req[wk].cache_key], TRUE)
       ELSE Respond(wk, KeyError, TRUE)
    /\ UNCHANGED <<TILE_CACHE, session_max_iter, renders, overlap, changes, served>>
    /\ UNCHANGED otherVars
    /\ UNCHANGED iterVars
    /\ UNCHANGED colorVars
    /\ UNCHANGED renderVars

ServeGenerate_Stale(wk) ==
    /\ op = "serve"
    /\ req[wk].pc = "generate"
    /\ req' = [req EXCEPT ![wk].pc = "store",
                          ![wk].img = Image(req[wk].tile, session_max_iter)]
    /\ renders' = [renders EXCEPT ![req[wk].cache_key] = @ + 1]
    /\ UNCHANGED <<TILE_CACHE, session_max_iter, answered, log, overlap,
                   changes, served>>
    /\ UNCHANGED otherVars
    /\ UNCHANGED iterVars
    /\ UNCHANGED colorVars
    /\ UNCHANGED renderVars

\* lines 1911-1927: the tile is generated, colored and encoded
ServeGenerate(wk) ==
    /\ op = "serve"
    /\ req[wk].pc = "generate"
    /\ req' = [req EXCEPT ![wk].pc = "store",
                          ![wk].img = Image(req[wk].tile, req[wk].max_iter)]
    /\ renders' = [renders EXCEPT ![req[wk].cache_key] = @ + 1]
    /\ UNCHANGED <<TILE_CACHE, session_max_iter, answered, log, overlap,
                   changes, served>>
    /\ UNCHANGED otherVars
    /\ UNCHANGED iterVars
    /\ UNCHANGED colorVars
    /\ UNCHANGED renderVars

ServeStore_Dropped(wk) ==
    /\ op = "serve"
    /\ req[wk].pc = "store"
    /\ req' = [req EXCEPT ![wk].pc = "return"]
    /\ UNCHANGED <<TILE_CACHE, session_max_iter, renders, answered, log,
                   overlap, changes, served>>
    /\ UNCHANGED otherVars
    /\ UNCHANGED iterVars
    /\ UNCHANGED colorVars
    /\ UNCHANGED renderVars

\* line 1930: TILE_CACHE[cache_key] = buf.getvalue()
ServeStore(wk) ==
    /\ op = "serve"
    /\ req[wk].pc = "store"
    /\ TILE_CACHE' = [k \in DOMAIN TILE_CACHE \cup {req[wk].cache_key} |->
                         IF k = req[wk].cache_key THEN req[wk].img
                         ELSE TILE_CACHE[k]]
    /\ req' = [req EXCEPT ![wk].pc = "return"]
    /\ UNCHANGED <<session_max_iter, renders, answered, log, overlap,
                   changes, served>>
    /\ UNCHANGED otherVars
    /\ UNCHANGED iterVars
    /\ UNCHANGED colorVars
    /\ UNCHANGED renderVars

\* line 1932: return send_file(BytesIO(TILE_CACHE[cache_key]))
ServeReturn(wk) ==
    /\ op = "serve"
    /\ req[wk].pc = "return"
    /\ IF req[wk].cache_key \in DOMAIN TILE_CACHE
       THEN Respond(wk, TILE_CACHE[req[wk].cache_key], FALSE)
       ELSE Respond(wk, KeyError, FALSE)
    /\ UNCHANGED <<TILE_CACHE, session_max_iter, renders, overlap, changes, served>>
    /\ UNCHANGED otherVars
    /\ UNCHANGED iterVars
    /\ UNCHANGED colorVars
    /\ UNCHANGED renderVars

\* a parameter control is moved: the session takes the new value and the
\* tile cache is cleared (leaflet-explorer-feature.md, lines 28 and 130; the
\* callback itself is part of the explorer page)
ParamChange(m) ==
    /\ op = "serve"
    /\ changes < MaxChanges
    /\ m # session_max_iter
    /\ session_max_iter' = m
    /\ TILE_CACHE' = EmptyCache
    /\ changes' = changes + 1
    /\ UNCHANGED <<req, renders, answered, log, overlap, served>>
    /\ UNCHANGED otherVars
    /\ UNCHANGED iterVars
    /\ UNCHANGED colorVars
    /\ UNCHANGED renderVars

\* the caller sends the same request again, to either generator
RenderAgain ==
    /\ op \in {"render_opt", "render_cb"}
    /\ pc = "done"
    /\ calls < MaxCalls
    /\ calls' = calls + 1
    /\ prev' = result
    /\ pc' = "call"
    /\ c' = CZero /\ orbit' = <<>> /\ escape_time' = 0
    /\ u' = QZero /\ I' = QZero
    /\ rgb' = IF op = "render_cb" THEN NoPaletteValue ELSE NoRGB
    /\ i' = 0 /\ j' = 0
    /\ result' = <<>>
    /\ pixels' = 0
    /\ UNCHANGED <<op, build, w, z, max_iter, bailout, p, n, steps, palette_choice>>
    /\ UNCHANGED geomVars
    /\ UNCHANGED explorerVars

\* ------------------------------------------------------ pixel coordinates
\* The coordinates of a pixel are not whole numbers in general, and the two
\* generators round on the way to them.  In this section a double is
\* [s, m, e]: the sign s, the 53 bits m of the significand, the most
\* significant first, and the exponent e of the last bit; its value is
\* s * m * 2^e.  Zero has the empty significand.  The numbers met are far
\* from the overflow and underflow thresholds.
SignificandBits == 53

DZero == [s |-> 1, m |-> <<>>, e |-> 0]

\* the binary digits of a natural number, none for 0
RECURSIVE BitsOf(_)
BitsOf(v) == IF v = 0 THEN <<>> ELSE Append(BitsOf(v \div 2), v % 2)

Zeros(k) == [ix \in 1..k |-> 0]

\* b without its leading zeros
Strip(b) ==
    IF \A ix \in 1..Len(b) : b[ix] = 0 THEN <<>>
    ELSE LET first == CHOOSE ix \in 1..Len(b) :
                          b[ix] = 1 /\ \A l \in 1..(ix - 1) : b[l] = 0
         IN  SubSeq(b, first, Len(b))

\* b + 1; the result is one bit longer when b is all ones
Incr(b) ==
    IF \A ix \in 1..Len(b) : b[ix] = 1 THEN <<1>> \o Zeros(Len(b))
    ELSE LET last == CHOOSE ix \in 1..Len(b) :
                         b[ix] = 0 /\ \A l \in (ix + 1)..Len(b) : b[l] = 1
         IN  [ix \in 1..Len(b) |-> IF ix < last THEN b[ix]
                                   ELSE IF ix = last THEN 1 ELSE 0]

\* the double nearest to s * (b + f) * 2^e, ties to even (the rounding of
\* every arithmetic operation on doubles), for a bit string b and a fraction
\* f in [0, 1) that is not zero exactly when sticky holds
RoundToDouble(s, b, e, sticky) ==
    LET bits == Strip(b)
        len == Len(bits)
    IN  IF len = 0 THEN DZero
        ELSE IF len <= SignificandBits
        THEN [s |-> s, m |-> bits \o Zeros(SignificandBits - len),
              e |-> e - (SignificandBits - len)]
        ELSE LET keep == SubSeq(bits, 1, SignificandBits)
                 guard == bits[SignificandBits + 1]
                 rest == sticky \/ \E ix \in (SignificandBits + 2)..len : bits[ix] = 1
                 up == guard = 1 /\ (rest \/ keep[SignificandBits] = 1)
                 r == IF up THEN Incr(keep) ELSE keep
                 ex == e + (len - SignificandBits)
             IN  IF Len(r) > SignificandBits
                 THEN [s |-> s, m |-> SubSeq(r, 1, SignificandBits), e |-> ex + 1]
                 ELSE [s |-> s, m |-> r, e |-> ex]

\* <double>v for a C int v
DInt(v) == RoundToDouble(Sgn(v), BitsOf(v * Sgn(v)), 0, FALSE)

\* Long bit strings are worked on in limbs of LimbBits bits, most
\* significant first.
LimbBits == 15
LimbBase == 2 ^ LimbBits

\* the number whose binary digits are b[1..k], for k <= LimbBits
RECURSIVE LimbValue(_, _)
LimbValue(b, k) == IF k = 0 THEN 0 ELSE 2 * LimbValue(b, k - 1) + b[k]

\* the limbs of a bit string, and the bit string of a sequence of limbs
Limbs(b) ==
    LET count == (Len(b) + LimbBits - 1) \div LimbBits
        padded == Zeros(count * LimbBits - Len(b)) \o b
    IN  [k \in 1..count |->
            LimbValue(SubSeq(padded, (k - 1) * LimbBits + 1, k * LimbBits), LimbBits)]

LimbsToBits(L) ==
    [ix \in 1..(LimbBits * Len(L)) |->
        (L[((ix - 1) \div LimbBits) + 1]
            \div (2 ^ (LimbBits - 1 - ((ix - 1) % LimbBits)))) % 2]

\* the first k limbs of the fraction r / b, for 0 <= r < b < LimbBase, and
\* the remainder they leave
RECURSIVE FractionLimbs(_, _, _)
FractionLimbs(r, b, k) ==
    IF k = 0 THEN [q |-> <<>>, r |-> r]
    ELSE LET t == r * LimbBase
             rest == FractionLimbs(t % b, b, k - 1)
         IN  [q |-> <<t \div b>> \o rest.q, r |-> rest.r]

\* limbs of a quotient's fraction that are computed: with the quotient's
\* whole part they hold more than SignificandBits + 2 significant bits
QuotientLimbs == 5

\* a / b as doubles, for a whole number a and a whole number b > 0
DDiv(a, b) ==
    IF a = 0 THEN DZero
    ELSE LET abs == a * Sgn(a)
             frac == FractionLimbs(abs % b, b, QuotientLimbs)
         IN  RoundToDouble(Sgn(a), BitsOf(abs \div b) \o LimbsToBits(frac.q),
                           0 - LimbBits * QuotientLimbs, frac.r # 0)

\* the limbs of L[1..k] * idx + carry, for 0 <= idx < LimbBase
RECURSIVE MulLimbs(_, _, _, _)
MulLimbs(L, k, idx, carry) ==
    IF k = 0 THEN <<carry>>
    ELSE LET t == L[k] * idx + carry
         IN  IF t < LimbBase THEN Append(MulLimbs(L, k - 1, idx, 0), t)
             ELSE Append(MulLimbs(L, k - 1, idx, t \div LimbBase), t % LimbBase)

\* idx * d as doubles, for a C int idx >= 0
DMulInt(idx, d) ==
    IF idx = 0 \/ d.m = <<>> THEN DZero
    ELSE LET L == Limbs(d.m)
         IN  RoundToDouble(d.s, LimbsToBits(MulLimbs(L, Len(L), idx, 0)), d.e, FALSE)

\* A + B and A - B (for A >= B) on the first k limbs of two limb strings of
\* one length
RECURSIVE AddLimbs(_, _, _, _)
AddLimbs(A, B, k, carry) ==
    IF k = 0 THEN <<carry>>
    ELSE LET t == A[k] + B[k] + carry
         IN  IF t < LimbBase THEN Append(AddLimbs(A, B, k - 1, 0), t)
             ELSE Append(AddLimbs(A, B, k - 1, 1), t - LimbBase)

RECURSIVE SubLimbs(_, _, _, _)
SubLimbs(A, B, k, borrow) ==
    IF k = 0 THEN <<>>
    ELSE LET t == A[k] - B[k] - borrow
         IN  IF t < 0 THEN Append(SubLimbs(A, B, k - 1, 1), t + LimbBase)
             ELSE Append(SubLimbs(A, B, k - 1, 0), t)

\* A < B for limb strings of one length
RECURSIVE LimbsLess(_, _)
LimbsLess(A, B) ==
    /\ A # <<>>
    /\ \/ A[1] < B[1]
       \/ A[1] = B[1] /\ LimbsLess(Tail(A), Tail(B))

\* x + y as doubles: the exact sum, rounded once
DAdd(x, y) ==
    IF x.m = <<>> THEN y
    ELSE IF y.m = <<>> THEN x
    ELSE LET e == IF x.e < y.e THEN x.e ELSE y.e
             xb == x.m \o Zeros(x.e - e)
             yb == y.m \o Zeros(y.e - e)
             len == IF Len(xb) > Len(yb) THEN Len(xb) ELSE Len(yb)
             xa == Limbs(Zeros(len - Len(xb)) \o xb)
             ya == Limbs(Zeros(len - Len(yb)) \o yb)
             k == Len(xa)
         IN  IF x.s = y.s
             THEN RoundToDouble(x.s, LimbsToBits(AddLimbs(xa, ya, k, 0)), e, FALSE)
             ELSE IF xa = ya THEN DZero
             ELSE IF LimbsLess(xa, ya)
             THEN RoundToDouble(y.s, LimbsToBits(SubLimbs(ya, xa, k, 0)), e, FALSE)
             ELSE RoundToDouble(x.s, LimbsToBits(SubLimbs(xa, ya, k, 0)), e, FALSE)

\* mandelbrot_set_cython_optimized, lines 254-255 and 262-263:
\* dx = (xmax - xmin) / <double>(width - 1), then xmin + j * dx
coordinate_optimized(lo, hi, size, idx) ==
    DAdd(DInt(lo), DMulInt(idx, DDiv(hi - lo, size - 1)))

\* mandelbrot_set_cython, lines 35-36: xmin + j * (xmax - xmin) / (width - 1)
coordinate_callback(lo, hi, size, idx) ==
    DAdd(DInt(lo), DDiv(idx * (hi - lo), size - 1))

\* requests with whole-number ranges, among them the real range of the base
\* view, and with at least two pixels each way
CoordRanges == {<<0 - 2, 1>>, <<0 - 2, 0>>, <<0, 1>>}
CoordSizes == 2..CoordDim

InitCoords ==
    /\ op = "coords"
    /\ pc = "call"
    /\ build = "wrap"
    /\ z = CZero /\ c = CZero /\ max_iter = 0 /\ bailout = 0 /\ p = 2
    /\ n = 0 /\ orbit = <<>> /\ escape_time = 0 /\ steps = 0 /\ w = CZero
    /\ ColorIdle
    /\ \E xr \in CoordRanges : xmin = xr[1] /\ xmax = xr[2]
    /\ \E yr \in CoordRanges : ymin = yr[1] /\ ymax = yr[2]
    /\ width \in CoordSizes
    /\ height \in CoordSizes
    /\ j \in 0..(width - 1)
    /\ i \in 0..(height - 1)
    /\ result = <<>>
    /\ pixels = 0
    /\ cb = NoCallbacks
    /\ calls = 0
    /\ prev = <<>>
    /\ coords = <<>>
    /\ threads = <<>>
    /\ ExplorerIdle

\* the coordinates of pixel (i, j) as each generator computes them
Coords ==
    /\ op = "coords" /\ pc = "call"
    /\ coords' = [optimized |-> Cx(coordinate_optimized(xmin, xmax, width, j),
                                   coordinate_optimized(ymin, ymax, height, i)),
                  callback |-> Cx(coordinate_callback(xmin, xmax, width, j),
                                  coordinate_callback(ymin, ymax, height, i))]
    /\ pc' = "done"
    /\ UNCHANGED <<op, build, w, i, j, result, pixels, againVars, threads>>
    /\ UNCHANGED <<xmin, xmax, ymin, ymax, width, height, cb>>
    /\ UNCHANGED iterVars
    /\ UNCHANGED colorVars
    /\ UNCHANGED explorerVars

\* ------------------------------------------------------ pixels of a tile
\* cython-integration-guide.md, lines 1910-1911: serve_tile hands the bounds
\* of tile_to_bounds to the generator unchanged, for a tile of 256 x 256
\* pixels, and copies the rows of the result in their order (lines
\* 1917-1920).  The generator's coordinates are those of mandelbrot_cy.pyx,
\* here on bounds that are doubles rather than whole numbers.
TileSize == 256

\* -x and x - y as doubles
DNeg(x) == IF x.m = <<>> THEN x ELSE [x EXCEPT !.s = 0 - x.s]

DSub(x, y) == DAdd(x, DNeg(y))

\* the quotient and the remainder of the limbs L[1..k] by b, 0 < b < LimbBase
RECURSIVE DivLimbs(_, _, _)
DivLimbs(L, k, b) ==
    IF k = 0 THEN [q |-> <<>>, r |-> 0]
    ELSE LET head == DivLimbs(L, k - 1, b)
             t == head.r * LimbBase + L[k]
         IN  [q |-> Append(head.q, t \div b), r |-> t % b]

\* d / <double>b as doubles, for a C int b > 0
DDivInt(d, b) ==
    IF d.m = <<>> THEN DZero
    ELSE LET L == Limbs(d.m)
             whole == DivLimbs(L, Len(L), b)
             frac == FractionLimbs(whole.r, b, QuotientLimbs)
         IN  RoundToDouble(d.s, LimbsToBits(whole.q \o frac.q),
                           d.e - LimbBits * QuotientLimbs, frac.r # 0)

\* the double h/2 + k / 2^s that an edge of the tile mapper stands for
TDouble(t) ==
    DAdd(RoundToDouble(Sgn(t.h), BitsOf(t.h * Sgn(t.h)), 0 - 1, FALSE),
         RoundToDouble(Sgn(t.k), BitsOf(t.k * Sgn(t.k)), 0 - t.s, FALSE))

\* mandelbrot_set_cython, lines 35-36: lo + idx * (hi - lo) / (size - 1)
c_callback(lo, hi, size, idx) ==
    DAdd(lo, DDivInt(DMulInt(idx, DSub(hi, lo)), size - 1))

\* mandelbrot_set_cython_optimized, lines 254-255 and 262-263
c_optimized(lo, hi, size, idx) ==
    DAdd(lo, DMulInt(idx, DDivInt(DSub(hi, lo), size - 1)))

\* the point of pixel (row, col) of tile t under each generator
tile_pixel(t, row, col) ==
    LET b == tile_to_bounds(t.x, t.y, t.z)
        x0 == TDouble(b.xmin)
        x1 == TDouble(b.xmax)
        y0 == TDouble(b.ymin)
        y1 == TDouble(b.ymax)
    IN  [optimized |-> Cx(c_optimized(x0, x1, TileSize, col),
                          c_optimized(y0, y1, TileSize, row)),
         callback |-> Cx(c_callback(x0, x1, TileSize, col),
                         c_callback(y0, y1, TileSize, row))]

\* the first two and the last rows and columns of a tile
TilePixels == {0, 1, TileSize - 1}

InitTilePixel ==
    /\ op = "tile_pixel"
    /\ pc = "call"
    /\ build = "wrap"
    /\ z = CZero /\ c = CZero /\ max_iter = 0 /\ bailout = 0 /\ p = 2
    /\ n = 0 /\ orbit = <<>> /\ escape_time = 0 /\ steps = 0 /\ w = CZero
    /\ ColorIdle
    /\ xmin = 0 /\ xmax = 0 /\ ymin = 0 /\ ymax = 0
    /\ width = TileSize
    /\ height = TileSize
    /\ i \in TilePixels
    /\ j \in TilePixels
    /\ result = <<>>
    /\ pixels = 0
    /\ cb = NoCallbacks
    /\ calls = 0
    /\ prev = <<>>
    /\ coords = <<>>
    /\ threads = <<>>
    /\ tile \in Tiles
    /\ bounds = <<>>
    /\ ServerIdle

\* serve_tile up to the point of pixel (i, j) of the requested tile
TilePixel ==
    /\ op = "tile_pixel" /\ pc = "call"
    /\ bounds' = tile_to_bounds(tile.x, tile.y, tile.z)
    /\ coords' = tile_pixel(tile, i, j)
    /\ pc' = "done"
    /\ UNCHANGED <<op, build, w, i, j, result, pixels, againVars, threads, tile>>
    /\ UNCHANGED <<xmin, xmax, ymin, ymax, width, height, cb>>
    /\ UNCHANGED iterVars
    /\ UNCHANGED colorVars
    /\ UNCHANGED serverVars

\* ------------------------------------------------ the row-parallel render
\* cython-integration-guide.md, lines 811-834: the loop of
\* mandelbrot_set_cython_optimized with prange over the rows.  Each OpenMP
\* thread owns a range of rows; i, j, c_real, c_imag and the pixel's r, g, b
\* are private to the thread (they are assigned inside the prange body) and
\* result is the one thing the threads share.
Threads == 1..NumThreads

\* the ways of cutting the rows 0..h-1 into one range per thread: thread t
\* owns the rows cut[t - 1] .. cut[t] - 1
RowCuts(h) ==
    {cut \in [0..NumThreads -> 0..h] :
        /\ cut[0] = 0
        /\ cut[NumThreads] = h
        /\ \A t \in Threads : cut[t - 1] <= cut[t]}

NoThreads == <<>>

ParRanges == {<<0 - 2, SpanUnit - 2>>, <<0 - 2, 2 * SpanUnit - 2>>}

InitPar ==
    /\ op = "render_par"
    /\ pc = "call"
    /\ build = "wrap"
    /\ z = CZero /\ c = CZero
    /\ max_iter = MaxIterBound
    /\ bailout = 2
    /\ p = 2
    /\ n = 0 /\ orbit = <<>> /\ escape_time = 0 /\ steps = 0 /\ w = CZero
    /\ u = QZero /\ I = QZero /\ rgb = NoRGB
    /\ palette_choice \in {0, 1}
    /\ \E xr \in ParRanges : xmin = xr[1] /\ xmax = xr[2]
    /\ ymin = 0 - 2 /\ ymax = SpanUnit - 2
    /\ width \in 1..MaxDim
    /\ height \in 1..MaxDim
    /\ i = 0 /\ j = 0
    /\ result = <<>>
    /\ pixels = 0
    /\ cb = NoCallbacks
    /\ calls = 1
    /\ prev = <<>>
    /\ coords = <<>>
    /\ threads = NoThreads
    /\ ExplorerIdle

\* the buffer is allocated and the rows are handed out
ParCall ==
    /\ op = "render_par" /\ pc = "call"
    /\ result' = NewBuffer(height, width, Uninitialized(calls))
    /\ \E cut \in RowCuts(height) :
          threads' = [t \in Threads |->
                         [start |-> cut[t - 1], i |-> cut[t - 1], j |-> 0,
                          stop |-> cut[t]]]
    /\ pc' = "rows"
    /\ UNCHANGED <<op, build, w, i, j, pixels, againVars>>
    /\ UNCHANGED <<xmin, xmax, ymin, ymax, width, height, cb, coords>>
    /\ UNCHANGED iterVars
    /\ UNCHANGED colorVars
    /\ UNCHANGED explorerVars

\* the position after (row, col) in a thread's loops
NextPosition(th) ==
    IF th.j + 1 < width THEN [th EXCEPT !.j = th.j + 1]
    ELSE [th EXCEPT !.i = th.i + 1, !.j = 0]

ParPixel_SharedColumn(t) ==
    /\ op = "render_par" /\ pc = "rows"
    /\ threads[t].i < threads[t].stop
    /\ LET th == threads[t]
           cc == Cx(OptCoord(xmin, xmax, width, th.j), OptCoord(ymin, ymax, height, th.i))
           px == compute_pixel(cc, max_iter, bailout, p, palette_choice)
       IN  /\ result' = [result EXCEPT ![<<th.i, th.j>>] = px.rgb]
           /\ threads' = [o \in Threads |->
                             IF o = t THEN NextPosition(th)
                             ELSE [threads[o] EXCEPT !.j = NextPosition(th).j]]
    /\ pixels' = pixels + 1
    /\ UNCHANGED <<op, pc, build, w, i, j, againVars>>
    /\ UNCHANGED <<xmin, xmax, ymin, ymax, width, height, cb, coords>>
    /\ UNCHANGED iterVars
    /\ UNCHANGED colorVars
    /\ UNCHANGED explorerVars

\* one pixel of thread t: its coordinates, compute_pixel, the three stores
\* into result[i, j, :], and the step of the thread's own loop indices
ParPixel(t) ==
    /\ op = "render_par" /\ pc = "rows"
    /\ threads[t].i < threads[t].stop
    /\ LET th == threads[t]
           cc == Cx(OptCoord(xmin, xmax, width, th.j), OptCoord(ymin, ymax, height, th.i))
           px == compute_pixel(cc, max_iter, bailout, p, palette_choice)
       IN  /\ result' = [result EXCEPT ![<<th.i, th.j>>] = px.rgb]
           /\ threads' = [threads EXCEPT ![t] = NextPosition(th)]
    /\ pixels' = pixels + 1
    /\ UNCHANGED <<op, pc, build, w, i, j, againVars>>
    /\ UNCHANGED <<xmin, xmax, ymin, ymax, width, height, cb, coords>>
    /\ UNCHANGED iterVars
    /\ UNCHANGED colorVars
    /\ UNCHANGED explorerVars

\* every thread has finished its rows: the end of the prange, and the return
ParReturn ==
    /\ op = "render_par" /\ pc = "rows"
    /\ \A t \in Threads : threads[t].i >= threads[t].stop
    /\ pc' = "done"
    /\ UNCHANGED <<op, build, w, i, j, result, pixels, againVars, threads>>
    /\ UNCHANGED <<xmin, xmax, ymin, ymax, width, height, cb, coords>>
    /\ UNCHANGED iterVars
    /\ UNCHANGED colorVars
    /\ UNCHANGED explorerVars

Init ==
    \/ InitOrbit \/ InitSeed \/ InitPalette \/ InitSmooth \/ InitPixel
    \/ InitOpt \/ InitCb
    \/ InitTileToBounds \/ InitTileToComplexBounds
    \/ InitServe
    \/ InitCoords
    \/ InitTilePixel
    \/ InitPar

Next ==
    \/ OrbitCall \/ OrbitStep \/ OrbitExhaust
    \/ SeedCall
    \/ PaletteCall
    \/ SmoothCall
    \/ PixelIter \/ PixelLoopEnd \/ PixelColor
    \/ OptCall \/ OptPixel \/ OptRowEnd \/ OptReturn
    \/ CbCall \/ CbPixel \/ CbRowEnd \/ CbReturn
    \/ RenderAgain
    \/ Coords
    \/ TilePixel
    \/ ParCall
    \/ \E t \in Threads : ParPixel(t)
    \/ ParReturn
    \/ TileToBounds \/ TileToComplexBounds
    \/ \E wk \in Workers, t \in RequestedTiles : ServeBegin(wk, t)
    \/ \E wk \in Workers : ServeLookup(wk)
    \/ \E wk \in Workers : ServeHit(wk)
    \/ \E wk \in Workers : ServeGenerate(wk)
    \/ \E wk \in Workers : ServeStore(wk)
    \/ \E wk \in Workers : ServeReturn(wk)
    \/ \E m \in MaxIterSettings : ParamChange(m)

Spec == Init /\ [][Next]_vars

\* Runs of the engines on requests with positive max_iter, width and height.
\* The engines are sequential CPU-bound code with no wait, lock or I/O in
\* their loops: a call that can take a step takes it, which is weak fairness
\* of the next-step action, WF_vars(RunNext).  It is written out below as
\* []<>~ENABLED <<RunNext>>_vars \/ []<><<RunNext>>_vars, with the enabling
\* condition given by the guards of the actions: a call is at a position of
\* its code, or a finished render can be requested again.
PositiveRequest ==
    /\ max_iter > 0
    /\ op \in {"render_opt", "render_cb"} => (width > 0 /\ height > 0)

RunInit ==
    /\ InitOrbit \/ InitPixel \/ InitOpt \/ InitCb
    /\ PositiveRequest
    /\ build = "wrap"

RunNext ==
    \/ OrbitCall \/ OrbitStep \/ OrbitExhaust
    \/ PixelIter \/ PixelLoopEnd \/ PixelColor
    \/ OptCall \/ OptPixel \/ OptRowEnd \/ OptReturn
    \/ CbCall \/ CbPixel \/ CbRowEnd \/ CbReturn
    \/ RenderAgain

CanStep ==
    \/ pc \in {"call", "loop", "iter", "color", "rows"}
    \/ op \in {"render_opt", "render_cb"} /\ pc = "done" /\ calls < MaxCalls

RunFairness == ([]<>(~CanStep)) \/ ([]<><<RunNext>>_vars)

RunSpec == RunInit /\ [][RunNext]_vars /\ RunFairness

\* =============================================================== properties
OrbitDone == op = "orbit" /\ pc = "done"

OrbitLen == Cardinality(DOMAIN orbit)

\* indices of the orbit array that the loop has written
Written == {ix \in DOMAIN orbit : orbit[ix] # Garbage}

\* the k-th iterate of the seed function from z0 = 0
RECURSIVE Iterate(_, _, _)
Iterate(cc, pp, k) == IF k = 0 THEN CZero ELSE f_cython(Iterate(cc, pp, k - 1), cc, pp)

\* |zz|^2 <= bb^2
WithinBailout(zz, bb) ==
    /\ AbsSq(zz).k = "fin"
    /\ AbsSq(zz).v <= bb * bb

C3_BoundedGivesMaxIter ==
    (/\ OrbitDone
     /\ max_iter >= 0
     /\ \A k \in 1..(max_iter + 1) : WithinBailout(Iterate(c, p, k), bailout))
        => escape_time = max_iter

\* c = -2 with bailout 2: the iterates 0, -2, 2, 2, ... sit on the radius
C3_Witness ==
    /\ OrbitDone
    /\ c = CInt(0 - 2, 0) /\ bailout = 2 /\ p = 2
    /\ max_iter = MaxIterBound
    /\ escape_time = max_iter
    /\ steps = max_iter + 1

\* C5: for p = 2 the seed function returns exactly z*z + c, which is also the
\* value of the generic power form z^p + c at p = 2 (and the step written
\* inline in the orbit loop is the same value).
C5_SeedSquare ==
    (op = "seed" /\ pc = "done" /\ p = 2) =>
        /\ w.re = Fin(z.re.v * z.re.v - z.im.v * z.im.v + c.re.v)
        /\ w.im = Fin(2 * z.re.v * z.im.v + c.im.v)
        /\ w = CAdd(CPow(z, p), c)
        /\ w = OrbitNextZ(z, c, p)

C5_Witness ==
    /\ op = "seed" /\ pc = "done" /\ p = 2
    /\ z = CInt(1, 2) /\ c = CInt(0 - 1, 1)
    /\ w = CInt(0 - 4, 5)

PixelColored == op = "pixel" /\ pc \in {"color", "done"}

\* C2: for max_iter >= 0 the escape time returned by the orbit engine lies in
\* 0..max_iter, and so does the escape time compute_pixel holds, at every
\* point of its run.
C2_EscapeTimeRange ==
    /\ (OrbitDone /\ max_iter >= 0) => escape_time \in 0..max_iter
    /\ (op = "pixel" /\ max_iter >= 0) => escape_time \in 0..max_iter

\* c = 2: compute_pixel sees 0, 2, 6 and leaves the loop at i = 2
C2_Witness ==
    /\ op = "pixel" /\ pc = "done"
    /\ c = CInt(2, 0) /\ bailout = 2
    /\ max_iter = MaxIterBound
    /\ escape_time = 2

\* |cc| > bb for a radius bb >= 0
OutsideRadius(cc, bb) == cc.re.v * cc.re.v + cc.im.v * cc.im.v > bb * bb

\* C4: for |c| > bailout and max_iter >= 1 the escape time is 0 or 1, in the
\* orbit engine and in compute_pixel.
C4_ImmediateEscape ==
    (OutsideRadius(c, bailout) /\ max_iter >= 1) =>
        /\ OrbitDone => escape_time \in {0, 1}
        /\ PixelColored => escape_time \in {0, 1}

C4_Witness ==
    /\ op = "pixel" /\ pc = "done"
    /\ c = CInt(2, 2) /\ bailout = 2
    /\ max_iter = MaxIterBound
    /\ escape_time = 1
    /\ steps = 2

\* C6: whenever escape_time = max_iter the smooth coloring is exactly
\* max_iter, whatever the last z is: the logarithm formula is not applied.
C6_SmoothAtMaxIter ==
    (op \in {"pixel", "smooth"} /\ pc = "done" /\ escape_time = max_iter)
        => u = QInt(max_iter)

\* z = 0, where the logarithm formula has no value
C6_Witness ==
    /\ op = "smooth" /\ pc = "done"
    /\ z = CZero
    /\ max_iter = 2 /\ escape_time = 2
    /\ u = QInt(2)

\* C8: an unrecognized palette selector is rejected; no color is ever
\* produced for it by falling back to a default palette.
C8_UnknownSelectorRejected ==
    (op = "pixel" /\ palette_choice \notin {0, 1, 2}) => rgb = NoRGB

\* the index band * 2/15 + x maps to the channel value 255 * x / (2/15)
Ramp(ci, band) == ((15 * ci.n - 2 * band * ci.d) * 255) \div (2 * ci.d)

PaletteDone(choice) == op = "palette" /\ pc = "done" /\ palette_choice = choice

\* C9: the hot palette is white for every index I >= 0.4; below, it is black
\* for I < 0, and over the three equal bands of width 2/15 first red ramps
\* with green = blue = 0, then green ramps with red = 255 and blue = 0, then
\* blue ramps with red = green = 255.
C9_HotPalette ==
    (PaletteDone(1) /\ I.k # "nan") =>
        IF ~QLt(I, Q(2, 5)) THEN rgb = <<255, 255, 255>>
        ELSE IF QLt(I, QZero) THEN rgb = <<0, 0, 0>>
        ELSE IF QLt(I, Q(2, 15)) THEN rgb = <<Ramp(I, 0), 0, 0>> /\ rgb[1] < 255
        ELSE IF QLt(I, Q(4, 15)) THEN rgb = <<255, Ramp(I, 1), 0>> /\ rgb[2] < 255
        ELSE rgb = <<255, 255, Ramp(I, 2)>> /\ rgb[3] < 255

C9_Witness ==
    /\ PaletteDone(1)
    /\ I.k = "fin"
    /\ ~QLt(I, Q(2, 5)) /\ QLt(I, QOne)
    /\ rgb = <<255, 255, 255>>

\* round(clamp(ci, 0, 1) * 255), halves rounded up
RoundClamp255(ci) ==
    IF ci.k = "inf" THEN (IF ci.n > 0 THEN 255 ELSE 0)
    ELSE IF QLt(ci, QZero) THEN 0
    ELSE IF QGt(ci, QOne) THEN 255
    ELSE (2 * 255 * ci.n + ci.d) \div (2 * ci.d)

\* C10: the simple palette returns r = g = b = round(clamp(I, 0, 1) * 255):
\* 255 for indices above 1 and 0 for indices below 0.
C10_SimplePalette ==
    (PaletteDone(0) /\ I.k # "nan") =>
        rgb = <<RoundClamp255(I), RoundClamp255(I), RoundClamp255(I)>>

Rendering == op \in {"render_opt", "render_cb"}

InvalidGeometry ==
    \/ xmin >= xmax
    \/ ymin >= ymax
    \/ width <= 1
    \/ height <= 1
    \/ max_iter <= 0

\* C7: a render request with invalid geometry (xmin >= xmax, ymin >= ymax,
\* width or height non-positive or 1, max_iter <= 0) is rejected before any
\* pixel is computed: no pixel is computed and no image buffer is returned.
C7_InvalidGeometryRejected ==
    (Rendering /\ InvalidGeometry) => (pixels = 0 /\ pc # "done")

\* the index from which a palette's scaled intensity is 1: the simple palette
\* scales by 1, the hot and cool palettes by 2.5
SaturationIndex(choice) == IF choice = 0 THEN QOne ELSE Q(2, 5)

AnyPaletteDone == op = "palette" /\ pc = "done"

NonNegative(ci) == ci.k # "nan" /\ ~QLt(ci, QZero)

\* C11: for every non-negative color index, very large ones included, each
\* of the three palettes returns three channels in 0..255, and because the
\* scaled intensity is clamped to [0, 1] before the band logic, every index
\* whose scaled intensity is 1 or more gets the color of scaled intensity 1.
C11_PalettesClamped ==
    (AnyPaletteDone /\ NonNegative(I)) =>
        /\ \A k \in 1..3 : rgb[k] \in 0..255
        /\ ~QLt(I, SaturationIndex(palette_choice)) =>
               rgb = PixelPalette(palette_choice, SaturationIndex(palette_choice))

\* a = b for finite fractions
QEq(a, b) == a.k = "fin" /\ b.k = "fin" /\ a.n * b.d = b.n * a.d

\* C12: the cool palette is a cyan -> blue -> green -> cyan ramp: cyan
\* (0,255,255) at intensity 0, blue (0,0,255) at the end of band 1 (index
\* 2/15), green (0,255,0) at the end of band 2 (index 4/15), and cyan-like
\* (no red, green and blue at full) at intensity 1 (index 2/5 and above).
C12_CoolRamp ==
    PaletteDone(2) =>
        /\ QEq(I, QZero) => rgb = <<0, 255, 255>>
        /\ QEq(I, Q(2, 15)) => rgb = <<0, 0, 255>>
        /\ QEq(I, Q(4, 15)) => rgb = <<0, 255, 0>>
        /\ (I.k = "fin" /\ ~QLt(I, Q(2, 5))) => rgb = <<0, 255, 255>>

TileDone == op \in {"tile_to_bounds", "tile_to_complex_bounds"} /\ pc = "done"

\* the mapper the behaviour has called
Mapper(x, y, zm) ==
    IF op = "tile_to_bounds" THEN tile_to_bounds(x, y, zm)
    ELSE tile_to_complex_bounds(x, y, zm)

\* twice the value of an edge that is a whole number of halves
Twice(a) == a.h + 2 * a.k

TwiceView(b) == <<Twice(b.xmin), Twice(b.xmax), Twice(b.ymin), Twice(b.ymax)>>

\* C13: the bounds of tile (zoom 0, x 0, y 0) are exactly the base view
\* (xmin, xmax, ymin, ymax) = (-2.0, 1.0, -1.5, 1.5), and the description of
\* the zoom-0 view in the explorer's documentation names the same rectangle.
C13_BaseView ==
    (TileDone /\ tile = [x |-> 0, y |-> 0, z |-> 0]) =>
        /\ TwiceView(bounds) = <<0 - 4, 2, 0 - 3, 3>>
        /\ TwiceView(DocumentedBaseView) = TwiceView(bounds)

\* C14: the four tiles (2x,2y), (2x+1,2y), (2x,2y+1), (2x+1,2y+1) at zoom
\* z + 1 exactly partition tile (x, y) at zoom z: their outer edges are the
\* parent's edges, the two columns meet in one shared edge and so do the two
\* rows, and the shared edges lie within the parent.
C14_ChildrenPartition ==
    TileDone =>
        LET c00 == Mapper(2 * tile.x, 2 * tile.y, tile.z + 1)
            c10 == Mapper(2 * tile.x + 1, 2 * tile.y, tile.z + 1)
            c01 == Mapper(2 * tile.x, 2 * tile.y + 1, tile.z + 1)
            c11 == Mapper(2 * tile.x + 1, 2 * tile.y + 1, tile.z + 1)
        IN  /\ \A ch \in {c00, c01} :
                  /\ TEq(ch.xmin, bounds.xmin)
                  /\ TEq(ch.xmax, c10.xmin)
            /\ \A ch \in {c10, c11} :
                  /\ TEq(ch.xmin, c00.xmax)
                  /\ TEq(ch.xmax, bounds.xmax)
            /\ \A ch \in {c00, c10} :
                  /\ TEq(ch.ymax, bounds.ymax)
                  /\ TEq(ch.ymin, c01.ymax)
            /\ \A ch \in {c01, c11} :
                  /\ TEq(ch.ymax, c00.ymin)
                  /\ TEq(ch.ymin, bounds.ymin)
            /\ ~TLt(c00.xmax, bounds.xmin) /\ ~TLt(bounds.xmax, c00.xmax)
            /\ ~TLt(c00.ymin, bounds.ymin) /\ ~TLt(bounds.ymax, c00.ymin)

\* tile (1, 2) at zoom 2 covers [-1.25, -0.5] x [-0.75, 0]; its children
\* meet at -0.875 and -0.375, strictly inside
C14_Witness ==
    /\ op = "tile_to_bounds" /\ pc = "done"
    /\ tile = [x |-> 1, y |-> 2, z |-> 2]
    /\ bounds.xmin = [h |-> 0 - 4, k |-> 3, s |-> 2]
    /\ bounds.ymax = [h |-> 3, k |-> 0 - 6, s |-> 2]
    /\ tile_to_bounds(2, 4, 3).xmax = [h |-> 0 - 4, k |-> 9, s |-> 3]
    /\ TLt(bounds.xmin, tile_to_bounds(2, 4, 3).xmax)
    /\ TLt(tile_to_bounds(2, 4, 3).xmax, bounds.xmax)

\* C15: the imaginary axis is inverted: tile y = 0 has ymax = 1.5, for fixed
\* zoom and x both ymin and ymax strictly decrease as tile y increases, xmin
\* and xmax strictly increase with tile x, and every tile has xmin < xmax and
\* ymin < ymax.
C15_InvertedAxis ==
    TileDone =>
        LET below == Mapper(tile.x, tile.y + 1, tile.z)
            right == Mapper(tile.x + 1, tile.y, tile.z)
        IN  /\ tile.y = 0 => TEq(bounds.ymax, imag_max)
            /\ TLt(below.ymin, bounds.ymin) /\ TLt(below.ymax, bounds.ymax)
            /\ TLt(bounds.xmin, right.xmin) /\ TLt(bounds.xmax, right.xmax)
            /\ TLt(bounds.xmin, bounds.xmax)
            /\ TLt(bounds.ymin, bounds.ymax)

Serving == op = "serve"

\* the images sent in response to requests with cache key k
ImagesFor(k) == {r.img : r \in {e \in log : CacheKey(e.tile, e.max_iter) = k}}

\* C16: in a sequential run of tile requests (no two in flight together, no
\* parameter change in between) the generator is invoked at most once per
\* distinct key: every request for a key after the first is answered with
\* the identical image and without invoking the generator again.
C16_CacheIdempotence ==
    (Serving /\ ~overlap /\ changes = 0) =>
        \A k \in CacheKeys :
            /\ renders[k] <= 1
            /\ answered[k] >= 1 => renders[k] = 1
            /\ Cardinality(ImagesFor(k)) <= 1
            /\ KeyError \notin ImagesFor(k)

\* the same tile asked for three times in a row: one miss, two hits
C16_Witness ==
    /\ Serving /\ ~overlap /\ changes = 0
    /\ \E t \in RequestedTiles :
          LET k == CacheKey(t, DefaultMaxIter)
          IN  /\ answered[k] = MaxRequests
              /\ renders[k] = 1
              /\ log = {[tile |-> t, max_iter |-> DefaultMaxIter,
                         img |-> Image(t, DefaultMaxIter), hit |-> h] :
                        h \in BOOLEAN}

\* C17: under any interleaving of concurrent requests the generator is
\* invoked at most once per cache key: two concurrent misses for the same
\* key never both render.
C17_AtMostOncePerKey ==
    (Serving /\ changes = 0) => \A k \in CacheKeys : renders[k] <= 1

C19_WholesaleInvalidation ==
    Serving => \A k \in DOMAIN TILE_CACHE : k[4] = session_max_iter

OrbitEscaped == OrbitDone /\ n <= max_iter

\* C21: the orbit engine records every visited z, z0 included, up to and
\* including the escape point: when the bailout test triggers, the entries
\* 0..escape_time hold the iterates z_0..z_escape_time and the last of them,
\* orbit[escape_time], is the iterate whose squared magnitude exceeds
\* bailout^2, the value the downstream coloring reads.
C21_EscapePointRecorded ==
    (OrbitEscaped /\ max_iter >= 0) =>
        /\ Written = 0..escape_time
        /\ \A k \in 0..escape_time : orbit[k] = Iterate(c, p, k)
        /\ OrbitBailsOut(orbit[escape_time], bailout)

\* C22: the orbit engine returns escape_time = max_iter exactly when the
\* bailout test never triggered; whenever it triggers, escape_time is the
\* index of the loop iteration of the first violation (the iterates before
\* it are within the radius, the next one is not) and is not max_iter.
C22_EscapeTimeTellsEscape ==
    (OrbitDone /\ max_iter >= 0) =>
        /\ (escape_time = max_iter) <=> ~OrbitEscaped
        /\ OrbitEscaped =>
              /\ escape_time = n
              /\ escape_time # max_iter
              /\ OrbitBailsOut(Iterate(c, p, escape_time + 1), bailout)
              /\ \A k \in 1..escape_time :
                    ~OrbitBailsOut(Iterate(c, p, k), bailout)

CoordsDone == op = "coords" /\ pc = "done"

\* C23: pixel (row i, column j) is mapped linearly and inclusively on both
\* ends: column 0 to real = xmin, column width - 1 to real = xmax, row 0 to
\* imag = ymin, row height - 1 to imag = ymax, and the callback generator and
\* the optimized generator compute the same coordinate for every (i, j).
C23_CoordinateMapping ==
    CoordsDone =>
        /\ \A g \in {coords.optimized, coords.callback} :
              /\ j = 0 => g.re = DInt(xmin)
              /\ j = width - 1 => g.re = DInt(xmax)
              /\ i = 0 => g.im = DInt(ymin)
              /\ i = height - 1 => g.im = DInt(ymax)
        /\ coords.optimized = coords.callback

\* a pixel of the callback generator has just been stored: it is (i, j - 1)
CbStored == op = "render_cb" /\ pc = "rows" /\ j > 0

\* C24: each channel stored by the callback generator is the integer part of
\* the palette value masked with 0xFF, that is the integer part modulo 256:
\* every stored byte is in 0..255 and out-of-range palette values wrap
\* instead of saturating, 300 being stored as 44 and -1 as 255.
C24_ChannelsMasked ==
    /\ op = "render_cb" =>
          \A px \in DOMAIN result : \A k \in 1..3 : result[px][k] \in 0..255
    /\ CbStored =>
          \A k \in 1..3 :
              LET stored == result[<<i, j - 1>>][k]
                  whole == IF QLt(rgb[k], QZero) THEN 0 - Trunc(QSub(QZero, rgb[k]))
                           ELSE Trunc(rgb[k])
              IN  /\ \E q \in (0 - 2)..2 : stored = whole - 256 * q
                  /\ rgb[k] = QInt(300) => stored = 44
                  /\ rgb[k] = QInt(0 - 1) => stored = 255

\* an escaped pixel with palette value -1 next to a pixel of the set with
\* palette value 300
C24_Witness ==
    /\ op = "render_cb" /\ pc = "done"
    /\ cb = [inset |-> QInt(300), esc |-> QInt(0 - 1)]
    /\ \E px, py \in DOMAIN result :
          /\ result[px] = <<44, 44, 44>>
          /\ result[py] = <<255, 255, 255>>

Par == op = "render_par" /\ pc \in {"rows", "done"}

\* the buffer the sequential loop of mandelbrot_set_cython_optimized fills
\* for the request: pixel (i, j) from its own coordinates and the request
SequentialResult ==
    [px \in (0..(height - 1)) \X (0..(width - 1)) |->
        compute_pixel(Cx(OptCoord(xmin, xmax, width, px[2]),
                         OptCoord(ymin, ymax, height, px[1])),
                      max_iter, bailout, p, palette_choice).rgb]

\* the thread that owns the row of pixel px has computed px
Passed(px) ==
    \E t \in Threads :
        /\ px[1] \in threads[t].start..(threads[t].stop - 1)
        /\ \/ px[1] < threads[t].i
           \/ px[1] = threads[t].i /\ px[2] < threads[t].j

\* C25: pixels share no mutable state: for any partition of the rows into
\* disjoint ranges owned by different threads and any interleaving of their
\* steps, every pixel a thread has computed holds the value the sequential
\* loop gives it, no other entry of the buffer has been touched, and at the
\* end the buffer equals the sequential result with every entry written.
C25_RowsIndependent ==
    Par =>
        /\ \A px \in DOMAIN result :
              result[px] = IF Passed(px) THEN SequentialResult[px]
                           ELSE Uninitialized(calls)
        /\ pixels = Cardinality({px \in DOMAIN result : Passed(px)})
        /\ pc = "done" =>
              /\ result = SequentialResult
              /\ pixels = height * width
              /\ \A px \in DOMAIN result : \A k \in 1..3 : result[px][k] \in 0..255

\* two threads that both own rows have finished an image whose pixels differ
C25_Witness ==
    /\ op = "render_par" /\ pc = "done"
    /\ \A t \in Threads : threads[t].start < threads[t].stop
    /\ width >= 2
    /\ result = SequentialResult
    /\ \E px, py \in DOMAIN result : result[px] # result[py]

\* what a run has done so far stays within the bounds of its loops
LoopsBounded ==
    /\ op = "orbit" => steps <= max_iter + 1
    /\ op = "pixel" => steps <= max_iter
    /\ Rendering =>
          /\ pixels <= height * width
          /\ pc = "done" => pixels = height * width
          /\ pc # "error"

Started == pc \in {"call", "iter"}

Computed(wk) == req[wk].pc \in {"store", "return"}

\* C27: under any interleaving of concurrent requests the tile cache never
\* holds inconsistent results: every stored image, and every image a
\* computation is about to store, is the image the generator produces for
\* its key, so computations of one key that both finish store the same
\* value, and all the readers of a key are sent one and the same image.
C27_CacheConsistent ==
    Serving =>
        /\ \A k \in DOMAIN TILE_CACHE :
              \E t \in RequestedTiles, m \in MaxIterSettings :
                  k = CacheKey(t, m) /\ TILE_CACHE[k] = Image(t, m)
        /\ \A wk \in Workers :
              Computed(wk) =>
                  /\ req[wk].cache_key = CacheKey(req[wk].tile, req[wk].max_iter)
                  /\ req[wk].img = Image(req[wk].tile, req[wk].max_iter)
        /\ \A wk, o \in Workers :
              (Computed(wk) /\ Computed(o) /\ req[wk].cache_key = req[o].cache_key)
                  => req[wk].img = req[o].img
        /\ \A k \in CacheKeys : Cardinality(ImagesFor(k) \ {KeyError}) <= 1
        /\ changes = 0 => \A k \in CacheKeys : KeyError \notin ImagesFor(k)

\* two concurrent computations of one key have both finished and stored, and
\* a later request has read the entry they left
C27_Witness ==
    /\ Serving /\ overlap /\ changes = 0
    /\ \A wk \in Workers : req[wk].pc = "idle"
    /\ \E t \in RequestedTiles :
          LET k == CacheKey(t, DefaultMaxIter)
          IN  /\ renders[k] = 2
              /\ answered[k] = 3
              /\ TILE_CACHE[k] = Image(t, DefaultMaxIter)
              /\ \E r \in log : r.hit /\ r.img = Image(t, DefaultMaxIter)

\* C28: called with max_iter < 0 the orbit engine returns escape_time = 0
\* and an orbit with no meaningful entry: it neither raises nor returns a
\* negative escape time.
C28_NegativeBudget ==
    (op = "orbit" /\ max_iter < 0 /\ pc \notin {"call", "loop"}) =>
        /\ pc = "done"
        /\ escape_time = 0
        /\ Written = {}

TilePixelDone == op = "tile_pixel" /\ pc = "done"

\* the tile below and the tile to the right of the requested tile
TileBelow == [tile EXCEPT !.y = @ + 1]
TileRight == [tile EXCEPT !.x = @ + 1]

\* C30: tiles rendered by composing the tile mapper with the generator are
\* seamless: row 0 of a tile lies on the tile's top edge, its greatest
\* imaginary value, so the last row of a tile and row 0 of the tile below
\* map to the same imaginary coordinate, as the last column of a tile and
\* column 0 of the tile to its right map to the same real coordinate.
C30_TilesSeamless ==
    TilePixelDone =>
        /\ i = 0 => coords.callback.im = TDouble(bounds.ymax)
        /\ i = TileSize - 1 =>
              coords.callback.im = tile_pixel(TileBelow, 0, j).callback.im
        /\ j = TileSize - 1 =>
              coords.callback.re = tile_pixel(TileRight, i, 0).callback.re
====
